---- MODULE Spec2Model ----
(***************************************************************************)
(* Model of mediawords.util.web.useragent.UserAgent: the single-request    *)
(* executor request(), get(), and the redirect resolver                    *)
(* get_follow_http_html_redirects().                                       *)
(*                                                                         *)
(* URLs are sequences of tokens (<<"http://", "a">> is http://a); a token  *)
(* is the unit of matching, upper-casing and quoting.  The value None of   *)
(* the program is NoneUrl for URLs / patterns, "None" for strings, NoneInt *)
(* for integers and 0 for a Response reference.                            *)
(*                                                                         *)
(* The transport ("requests" session) is the environment: what a host      *)
(* serves is chosen when the host is first dialed and stays fixed (web).   *)
(* The configuration has no crawler_authenticated_domains, so              *)
(* __url_with_http_auth leaves the URL as it is.                           *)
(***************************************************************************)
EXTENDS Integers, Sequences, FiniteSets, TLC

\* ---------------------------------------------------------------- bounds
MaxRedirectBound == 2      \* max_redirect is drawn from None, 0..MaxRedirectBound
MaxChunks == 3             \* chunks a body stream delivers
MaxSizeBound == 2          \* max_size is drawn from None, MaxSizeBound
MaxBatch == 3              \* URLs in a parallel_get batch
MaxParallel == 2           \* web_store_num_parallel is drawn from 1..MaxParallel
MaxLogCalls == 1           \* request() calls of each process that shares the audit log
MaxSetterCalls == 2        \* setter calls made on one UserAgent
MaxTimingLen == 2          \* length of a timing list

\* ---------------------------------------------------------------- values
NoneInt == -1
NoneUrl == <<"<None>">>
EmptyUrl == <<>>

UrlA == <<"http://", "a">>
UrlAUpper == <<"http://", "A">>
UrlB == <<"http://", "b">>
UrlC == <<"http://", "c">>
UrlFtp == <<"ftp://", "a">>
UrlBackslash == <<"http://", "b", "\\", "x">>
\* a URL on host c that carries the URL-encoded http://a in its query
UrlPaywall == <<"http://", "c", "/?u=", "http%3A//", "a">>

WebUrls == {UrlA, UrlB, UrlC}
WebHosts == {"a", "b", "c"}
InputUrls == {NoneUrl, UrlFtp, UrlA, UrlAUpper, UrlB, UrlBackslash}
BlacklistPatterns == {NoneUrl, EmptyUrl, <<"a">>}

Lower(tok) == IF tok = "A" THEN "a" ELSE IF tok = "/P" THEN "/p" ELSE tok
LowerSeq(s) == [i \in 1..Len(s) |-> Lower(s[i])]

\* re.search(pattern, string, flags=re.IGNORECASE) for a literal pattern
re_search(pattern, string) ==
    \E i \in 1..(Len(string) - Len(pattern) + 1) :
        LowerSeq(SubSeq(string, i, i + Len(pattern) - 1)) = LowerSeq(pattern)

\* mediawords.util.url.is_http_url: the scheme must be http or https
is_http_url(url) ==
    /\ url # NoneUrl
    /\ Len(url) >= 2
    /\ Lower(url[1]) \in {"http://", "https://"}

\* mediawords.util.url.fix_common_url_mistakes: normalisation of the URL text
\* (backslashes become forward slashes)
fix_common_url_mistakes(url) ==
    [i \in 1..Len(url) |-> IF url[i] = "\\" THEN "/" ELSE url[i]]

get_url_host(url) == Lower(url[2])

\* ------------------------------------------------------------- Request
Request(method, url) ==
    [none |-> FALSE, method |-> method, url |-> url,
     auth_username |-> "None", auth_password |-> "None"]
NoneRequest ==
    [none |-> TRUE, method |-> "None", url |-> NoneUrl,
     auth_username |-> "None", auth_password |-> "None"]

AuthValues == {"None", "", "u"}
RequestInputs ==
    {NoneRequest}
    \cup {[none |-> FALSE, method |-> m, url |-> u,
           auth_username |-> "None", auth_password |-> "None"] :
            m \in {"GET", "None"}, u \in {NoneUrl, EmptyUrl, UrlA, UrlAUpper, UrlB, UrlFtp}}
    \cup {[none |-> FALSE, method |-> "GET", url |-> UrlB,
           auth_username |-> un, auth_password |-> pw] :
            un \in AuthValues, pw \in AuthValues}

\* ------------------------------------------------------------ Response
\* decoded content: what each HTML redirect rule finds in it (NoneUrl: nothing)
Content(meta, aorg, ais, linkis, alarabiya) ==
    [meta_refresh |-> meta, archive_org |-> aorg, archive_is |-> ais,
     linkis_com |-> linkis, alarabiya |-> alarabiya]
NoSignals == Content(NoneUrl, NoneUrl, NoneUrl, NoneUrl, NoneUrl)
Contents ==
    {Content(m, NoneUrl, NoneUrl, NoneUrl, NoneUrl) : m \in WebUrls \cup {NoneUrl}}
\* bodies in which two rules find a URL
SignalContents ==
    {NoSignals,
     Content(UrlC, NoneUrl, UrlB, NoneUrl, NoneUrl),
     Content(NoneUrl, UrlA, NoneUrl, NoneUrl, UrlB),
     Content(NoneUrl, NoneUrl, NoneUrl, UrlC, UrlA)}

\* what a host serves
PageKinds ==
    {[k |-> "redirect", to |-> u, status |-> 301, content |-> NoSignals] :
        u \in WebUrls \cup {UrlPaywall}}
    \cup {[k |-> "page", to |-> NoneUrl, status |-> 200, content |-> c] : c \in Contents}
    \cup {[k |-> "page", to |-> NoneUrl, status |-> 404, content |-> NoSignals]}
    \cup {[k |-> "timeout", to |-> NoneUrl, status |-> 0, content |-> NoSignals]}
    \cup {[k |-> "fault", to |-> NoneUrl, status |-> 0, content |-> NoSignals]}
\* pages whose bodies carry several redirect signals
SignalPages ==
    {[k |-> "page", to |-> NoneUrl, status |-> 200, content |-> c] : c \in SignalContents}
Unknown == [k |-> "unknown", to |-> NoneUrl, status |-> 0, content |-> NoSignals]
NoServer == [k |-> "fault", to |-> NoneUrl, status |-> 0, content |-> NoSignals]

\* sizes of the chunks iter_content() yields
ChunkSizes == {1, 2}

RECURSIVE SumSeq(_)
SumSeq(s) == IF s = <<>> THEN 0 ELSE Head(s) + SumSeq(Tail(s))

VARIABLES
    max_redirect,           \* self.__session.max_redirects
    max_size,               \* self.__max_size
    blacklist_url_pattern,  \* config['mediawords']['blacklist_url_pattern']
    web,                    \* what each host serves
    op,                     \* the public method being executed and its argument
    pc,                     \* position in the call
    ret,                    \* where request() returns to
    request,                \* the Request object inside request()
    cur_url,                \* URL the transport is dialing
    rq_history,             \* the transport's hop history (oldest first)
    outcome,                \* how session.send() ended
    stream,                 \* the body stream: none, open, ended, closed, broken
    chunks,                 \* sizes of the chunks the iter_content() loop has read
    response_data_size,     \* response_data_size of request()
    responses,              \* every Response object built, by reference
    last_response,          \* reference returned by the latest request()
    first,                  \* `response` of get_follow_http_html_redirects
    response_,              \* response_ of __inner
    meta_redirects_left,    \* meta_redirects_left of __inner
    requested,              \* URL of the Request of each request() call, as passed
    dispatched,             \* URLs handed to session.send(), with the call's number
    auditlog,               \* lines appended to http_request.log
    nexec,                  \* calls of request() so far
    result,                 \* what the public method returned or raised
    \* ---- a parallel_get() batch
    urls,                   \* the argument of parallel_get
    config_keys,            \* web_store_* keys present in config['mediawords']
    num_parallel,           \* config['mediawords']['web_store_num_parallel']
    per_domain_timeout,     \* config['mediawords']['web_store_per_domain_timeout']
    config_read,            \* parallel_get called py_get_config()
    pool,                   \* the multiprocessing.Pool: none, open, closed
    ppc,                    \* position of parallel_get
    url_blocks,             \* url_blocks, in insertion order: block_i and its URLs
    wstate,                 \* per submitted block: running, finished, or the exception
    wnext,                  \* per submitted block: index of the next URL to fetch
    wresponses,             \* per submitted block: `responses` of the worker
    uas,                    \* UserAgent instances constructed: the constructing worker
    fetches,                \* fetches performed: worker, instance, URL and its offset
    mutated,                \* objects mutated, with the worker that did
    collected,              \* results taken by result.get() so far
    all_responses,          \* all_responses of parallel_get
    presult,                \* what parallel_get returned or raised
    clock,                  \* time.time() - start_time, in whole seconds
    wpc,                    \* per submitted block: position in the round of the loop
    wwake,                  \* per submitted block: when the time.sleep() of the round ends
    \* ---- processes appending to http_request.log
    lock,                   \* the process holding the flock on the file, 0 for none
    lpc,                    \* per process: its position in __log_request
    eagain,                 \* some flock() call failed with EAGAIN
    lurl,                   \* per process: url of __log_request
    lbuffer,                \* per process: what f.write() left in the buffer of f
    logfile,                \* the lines of http_request.log
    lcalls,                 \* request() calls that passed the URL checks: the URL given
    lleft,                  \* per process: request() calls it has yet to make
    \* ---- __get_url_domain on its own
    key_urls,               \* two URLs of a batch
    domains,                \* their domain keys, once computed
    \* ---- __get_scheduled_urls on its own
    sched_urls,             \* urls_ of __get_scheduled_urls
    sched_timeout,          \* per_domain_timeout_ of __get_scheduled_urls
    schedule,               \* the list __get_scheduled_urls returned
    \* ---- the setters of one UserAgent
    timeout,                \* self.__timeout
    timing,                 \* self.__timing
    retries,                \* the Retry of the adapters mounted on the session
    setter,                 \* the latest setter call: its argument and how it ended
    nset                    \* setter calls so far

uavars == <<max_redirect, max_size, blacklist_url_pattern, web, op, pc, ret, request,
          cur_url, rq_history, outcome, stream, chunks, response_data_size, responses,
          last_response, first, response_, meta_redirects_left, requested, dispatched,
          auditlog, nexec, result>>

batchvars == <<urls, config_keys, num_parallel, per_domain_timeout, config_read, pool,
               ppc, url_blocks, wstate, wnext, wresponses, uas, fetches, mutated,
               collected, all_responses, presult, clock, wpc, wwake>>

lockvars == <<lock, lpc, eagain>>
filevars == <<lurl, lbuffer, logfile, lcalls, lleft>>

domainvars == <<key_urls, domains, sched_urls, sched_timeout, schedule>>

settervars == <<timeout, timing, retries, setter, nset>>

othervars == <<batchvars, lockvars, filevars, domainvars, settervars>>

vars == <<uavars, othervars>>

cfgvars == <<max_redirect, max_size, blacklist_url_pattern>>
transportvars == <<cur_url, rq_history, outcome, stream, chunks, response_data_size>>
gfrvars == <<first, response_, meta_redirects_left>>
logvars == <<requested, dispatched, auditlog, nexec>>

\* the reason phrase a server sends with its status
ServerReason == "<reason of the server>"
NoOutcome == [class |-> "none", status |-> 0, content |-> NoSignals, reason |-> "",
              error_is_client_side |-> FALSE, client_warning |-> FALSE]
NoResult == [kind |-> "none", id |-> 0, exc |-> ""]
Returned(id) == [kind |-> "response", id |-> id, exc |-> ""]
Raised(exc) == [kind |-> "raise", id |-> 0, exc |-> exc]

\* no call of a UserAgent method is in progress
NoCall ==
    /\ op = [name |-> "none", url |-> NoneUrl]
    /\ pc = "idle"
    /\ ret = "none"
    /\ request = NoneRequest
    /\ cur_url = NoneUrl
    /\ rq_history = <<>>
    /\ outcome = NoOutcome
    /\ stream = "none"
    /\ chunks = <<>>
    /\ response_data_size = 0
    /\ responses = <<>>
    /\ last_response = 0
    /\ first = 0
    /\ response_ = 0
    /\ meta_redirects_left = 0
    /\ requested = <<>>
    /\ dispatched = <<>>
    /\ auditlog = <<>>
    /\ nexec = 0
    /\ result = NoResult

\* no call is in progress and no host has been dialed
UserAgentIdle ==
    /\ web = [h \in WebHosts |-> Unknown]
    /\ NoCall

\* no parallel_get() batch; NoneBatch is None given for the list of URLs
NoneBatch == <<<<"<None list>">>>>
NoPResult == [kind |-> "none", responses |-> <<>>, exc |-> ""]
BatchIdle ==
    /\ urls = NoneBatch
    /\ config_keys = {}
    /\ num_parallel = 1
    /\ per_domain_timeout = 1
    /\ config_read = FALSE
    /\ pool = "none"
    /\ ppc = "idle"
    /\ url_blocks = <<>>
    /\ wstate = <<>>
    /\ wnext = <<>>
    /\ wresponses = <<>>
    /\ uas = <<>>
    /\ fetches = <<>>
    /\ mutated = {}
    /\ collected = 0
    /\ all_responses = <<>>
    /\ presult = NoPResult
    /\ clock = 0
    /\ wpc = <<>>
    /\ wwake = <<>>

\* processes that share the audit log
LogWorkers == {1, 2, 3}

\* nobody is appending to the audit log
LogIdle ==
    /\ lock = 0
    /\ lpc = [w \in LogWorkers |-> "idle"]
    /\ eagain = FALSE
    /\ lurl = [w \in LogWorkers |-> NoneUrl]
    /\ lbuffer = [w \in LogWorkers |-> NoneUrl]
    /\ logfile = <<>>
    /\ lcalls = <<>>
    /\ lleft = [w \in LogWorkers |-> 0]

\* no domain key is asked for
DomainIdle ==
    /\ key_urls = <<>>
    /\ domains = <<>>
    /\ sched_urls = <<>>
    /\ sched_timeout = 1
    /\ schedule = <<>>

DEFAULT_MAX_SIZE == 10 * 1024 * 1024
DEFAULT_MAX_REDIRECT == 15
DEFAULT_TIMEOUT == 20

\* self.__timing: None or a list
NoneTiming == [none |-> TRUE, list |-> <<>>]
TimingOf(t) == [none |-> FALSE, list |-> t]

\* HTTPAdapter(): no retries
NoRetries == [enabled |-> FALSE, total |-> 0, backoff_factor |-> 0, status_forcelist |-> {}]

NoSetter == [name |-> "none", arg_none |-> FALSE, arg_int |-> 0, arg_list |-> <<>>,
             raised |-> ""]

\* what __init__ leaves besides max_redirect and max_size; no setter called since
SetterIdle ==
    /\ timeout = DEFAULT_TIMEOUT
    /\ timing = NoneTiming
    /\ retries = NoRetries
    /\ setter = NoSetter
    /\ nset = 0

\* one UserAgent, as configured by its setters, before a call
Init ==
    /\ max_redirect \in {NoneInt} \cup 0..MaxRedirectBound
    /\ max_size \in {NoneInt, MaxSizeBound}
    /\ blacklist_url_pattern \in BlacklistPatterns
    /\ UserAgentIdle
    /\ SetterIdle
    /\ BatchIdle
    /\ LogIdle
    /\ DomainIdle

\* the public method ends by raising exc
Raise(exc) ==
    /\ result' = Raised(exc)
    /\ pc' = "done"

\* --------------------------------------------------------------- request()
BlacklistedUrl(url) == <<"http://", "blacklistedsite.localhost", "/">> \o url

\* the pattern searched without re.IGNORECASE
blacklist_case_sensitive(rq) ==
    IF /\ blacklist_url_pattern # NoneUrl
       /\ Len(blacklist_url_pattern) > 0
       /\ \E i \in 1..(Len(rq.url) - Len(blacklist_url_pattern) + 1) :
              SubSeq(rq.url, i, i + Len(blacklist_url_pattern) - 1) = blacklist_url_pattern
    THEN [rq EXCEPT !.url = BlacklistedUrl(rq.url)]
    ELSE rq

\* __blacklist_request_if_needed, past its None / empty checks: the Request it returns
blacklist_request_if_needed(rq) ==
    IF /\ blacklist_url_pattern # NoneUrl
       /\ Len(blacklist_url_pattern) > 0
       /\ re_search(blacklist_url_pattern, rq.url)
    THEN [rq EXCEPT !.url = BlacklistedUrl(rq.url)]
    ELSE rq

\* only the None check is made, not the one for empty credentials
AuthMismatch_none_only(rq) ==
    \/ rq.auth_username = "None" /\ rq.auth_password # "None"
    \/ rq.auth_username # "None" /\ rq.auth_password = "None"

\* the check of the HTTP authentication pair in request()
AuthMismatch(rq) ==
    \/ rq.auth_username = "None" /\ rq.auth_password # "None"
    \/ rq.auth_username # "None" /\ rq.auth_password = "None"
    \/ /\ rq.auth_username # "None"
       /\ rq.auth_password # "None"
       /\ \/ rq.auth_username = "" /\ rq.auth_password # ""
          \/ rq.auth_username # "" /\ rq.auth_password = ""

\* request() up to the call of session.send()
RequestEntry ==
    /\ pc = "request"
    /\ UNCHANGED othervars
    /\ nexec' = nexec + 1
    /\ requested' = Append(requested, request.url)
    /\ UNCHANGED <<cfgvars, web, op, ret, responses, last_response, gfrvars>>
    /\ UNCHANGED <<rq_history, outcome, stream, chunks, response_data_size>>
    /\ IF request.none \/ request.url = NoneUrl \/ request.url = EmptyUrl
       THEN /\ Raise("McRequestException")
            /\ UNCHANGED <<request, cur_url, dispatched, auditlog>>
       ELSE LET rq == blacklist_request_if_needed(request) IN
            /\ request' = rq
            /\ auditlog' = Append(auditlog, rq.url)
            /\ IF rq.method = "None" \/ AuthMismatch(rq)
               THEN /\ Raise("McRequestException")
                    /\ UNCHANGED <<cur_url, dispatched>>
               ELSE /\ dispatched' = Append(dispatched, [call |-> nexec + 1, url |-> rq.url])
                    /\ cur_url' = rq.url
                    /\ pc' = "send"
                    /\ UNCHANGED result

\* what the transport finds when it dials url
Serves(url) ==
    IF is_http_url(url) /\ get_url_host(url) \in WebHosts
    THEN IF web[get_url_host(url)] = Unknown THEN PageKinds ELSE {web[get_url_host(url)]}
    ELSE {NoServer}

\* session.send() raised: the synthesized response carries the prepared request
SendRaised(class, status, reason, client_warning) ==
    /\ outcome' = [class |-> class, status |-> status, content |-> NoSignals,
                   reason |-> reason, error_is_client_side |-> TRUE,
                   client_warning |-> client_warning]
    /\ rq_history' = <<>>
    /\ cur_url' = request.url
    /\ pc' = "finish"
    /\ UNCHANGED <<stream, chunks, response_data_size>>

\* session.send(): one hop of the transport, which follows HTTP redirects itself;
\* with the final response at hand, the streaming loop starts from an empty body
SessionSend ==
    /\ pc = "send"
    /\ UNCHANGED othervars
    /\ UNCHANGED <<cfgvars, op, ret, request, responses, last_response, gfrvars, logvars, result>>
    /\ \E k \in Serves(cur_url) :
        /\ web' = IF is_http_url(cur_url) /\ get_url_host(cur_url) \in WebHosts
                  THEN [web EXCEPT ![get_url_host(cur_url)] = k]
                  ELSE web
        /\ CASE k.k = "timeout" -> SendRaised("timeout", 408, "Request Timeout", FALSE)
             [] k.k = "fault" -> SendRaised("fault", 400, "Client-side error", TRUE)
             [] k.k = "redirect" ->
                  IF max_redirect = NoneInt
                  THEN \* len(resp.history) >= None: TypeError, a client-side error
                       SendRaised("fault", 400, "Client-side error", TRUE)
                  ELSE IF Len(rq_history) >= max_redirect
                  THEN \* TooManyRedirects: ex.response, whose history is hist[1:]
                       /\ outcome' = [class |-> "too_many_redirects", status |-> k.status,
                                      content |-> NoSignals, reason |-> ServerReason,
                                      error_is_client_side |-> FALSE,
                                      client_warning |-> FALSE]
                       /\ rq_history' = Tail(Append(rq_history,
                                                    [url |-> cur_url, status |-> k.status]))
                       /\ pc' = "finish"
                       /\ UNCHANGED <<cur_url, stream, chunks, response_data_size>>
                  ELSE /\ rq_history' = Append(rq_history,
                                               [url |-> cur_url, status |-> k.status])
                       /\ cur_url' = k.to
                       /\ pc' = "send"
                       /\ UNCHANGED <<outcome, stream, chunks, response_data_size>>
             [] k.k = "page" ->
                  /\ outcome' = [class |-> "response", status |-> k.status,
                                 content |-> k.content, reason |-> ServerReason,
                                 error_is_client_side |-> FALSE,
                                 client_warning |-> FALSE]
                  /\ stream' = "open"
                  /\ chunks' = <<>>
                  /\ response_data_size' = 0
                  /\ pc' = "stream"
                  /\ UNCHANGED <<cur_url, rq_history>>

\* reading stops as soon as the cap is reached
SizeExceeded_at_cap(size) == max_size # NoneInt /\ size >= max_size

\* the loop's test after a chunk: the size cap is exceeded, reading stops
SizeExceeded(size) == max_size # NoneInt /\ size > max_size

\* one round of `for chunk in requests_response.iter_content(...)`: the stream
\* yields a chunk, ends, or breaks off (iter_content() raises, outside the try
\* block of session.send())
IterContent ==
    /\ pc = "stream"
    /\ UNCHANGED othervars
    /\ UNCHANGED <<cfgvars, web, op, ret, request, responses, last_response, gfrvars,
                   logvars, cur_url, rq_history, outcome>>
    /\ \/ \E chunk \in ChunkSizes :
            /\ Len(chunks) < MaxChunks
            /\ chunks' = Append(chunks, chunk)
            /\ response_data_size' = response_data_size + chunk
            /\ IF SizeExceeded(response_data_size + chunk)
               THEN stream' = "closed" /\ pc' = "finish"
               ELSE stream' = stream /\ pc' = "stream"
            /\ UNCHANGED result
       \/ /\ stream' = "ended"
          /\ pc' = "finish"
          /\ UNCHANGED <<chunks, response_data_size, result>>
       \/ /\ stream' = "broken"
          /\ Raise("TransportError")
          /\ UNCHANGED <<chunks, response_data_size>>

\* every hop is given the request of the final response
HopRequestUrl_of_final(hop, url) == url

\* previous_response.set_request(): the request of the hop's own requests response
HopRequestUrl(hop, url) == hop.url

\* the mark is never set on the Response
ClientSideMark_never(out) == FALSE

\* if error_is_client_side: response.set_error_is_client_side(...)
ClientSideMark(out) == out.error_is_client_side

\* Response.from_requests_response and the previous chain built from the history:
\* the new Response first, then one Response per hop, newest first
BuildChain(n, url, out, hist) ==
    LET H == Len(hist)
        head == [url |-> url, status |-> out.status, content |-> out.content,
                 reason |-> out.reason, client_warning |-> out.client_warning,
                 error_is_client_side |-> ClientSideMark(out),
                 previous |-> IF H = 0 THEN 0 ELSE n + 2]
    IN  <<head>> \o
        [j \in 1..H |->
            [url |-> HopRequestUrl(hist[H - j + 1], url), status |-> hist[H - j + 1].status,
             content |-> NoSignals, reason |-> ServerReason, client_warning |-> FALSE,
             error_is_client_side |-> FALSE,
             previous |-> IF j = H THEN 0 ELSE n + 2 + j]]

\* request() from `response = Response.from_requests_response(...)` to its return
RequestFinish ==
    /\ pc = "finish"
    /\ UNCHANGED othervars
    /\ responses' = responses \o BuildChain(Len(responses), cur_url, outcome, rq_history)
    /\ last_response' = Len(responses) + 1
    /\ pc' = ret
    /\ UNCHANGED <<cfgvars, web, op, ret, request, gfrvars, logvars,
                   result, transportvars>>

\* the locals of request() are gone once its caller goes on
DropLocals ==
    /\ cur_url' = NoneUrl
    /\ rq_history' = <<>>
    /\ outcome' = NoOutcome
    /\ stream' = "none"
    /\ chunks' = <<>>
    /\ response_data_size' = 0

Return(id) ==
    /\ result' = Returned(id)
    /\ pc' = "done"

\* ------------------------------------------------------- public methods
\* get(): the URL is None, or is not HTTP(s) once its common mistakes are fixed
GetRejects(url) ==
    \/ url = NoneUrl
    \/ ~is_http_url(fix_common_url_mistakes(url))

\* get(): checks, then request(Request('GET', url)); r is where request() returns
Get(url, r) ==
    IF GetRejects(url)
    THEN Raise("McGetException") /\ UNCHANGED <<request, ret>>
    ELSE /\ request' = Request("GET", fix_common_url_mistakes(url))
         /\ ret' = r
         /\ pc' = "request"
         /\ UNCHANGED result

CallRequest ==
    /\ pc = "idle"
    /\ UNCHANGED othervars
    /\ \E rq \in RequestInputs :
        /\ op' = [name |-> "request", url |-> rq.url]
        /\ request' = rq
    /\ ret' = "api"
    /\ pc' = "request"
    /\ UNCHANGED <<cfgvars, web, transportvars, responses, last_response, gfrvars, logvars, result>>

CallGet ==
    /\ pc = "idle"
    /\ UNCHANGED othervars
    /\ \E url \in InputUrls :
        /\ op' = [name |-> "get", url |-> url]
        /\ Get(url, "api")
    /\ UNCHANGED <<cfgvars, web, transportvars, responses, last_response, gfrvars, logvars>>

\* request() returned to get(), which returns the Response to its caller
ApiReturn ==
    /\ pc = "api"
    /\ UNCHANGED othervars
    /\ Return(last_response)
    /\ DropLocals
    /\ UNCHANGED <<cfgvars, web, op, ret, request, responses, last_response, gfrvars, logvars>>

\* Response.is_success(): the status is no error status
is_success(r) == r.status < 400

\* html_redirects.target_request_from_*: the five rules, in the order of
\* html_redirect_functions; each yields a URL or None
RedirectTargets(r) ==
    <<r.content.meta_refresh, r.content.archive_org, r.content.archive_is,
      r.content.linkis_com, r.content.alarabiya>>

\* rules whose target is a request for another URL than the response's own
FiringRules(r) ==
    {i \in 1..5 : RedirectTargets(r)[i] # NoneUrl /\ RedirectTargets(r)[i] # r.url}

\* the loop goes on to the last rule that yields another URL
FirstRule_last(S) == CHOOSE i \in S : \A j \in S : i >= j

\* the rule the `for html_redirect_function` loop stops at
FirstRule(S) == CHOOSE i \in S : \A j \in S : i <= j

\* urllib.parse.quote(url): the scheme's colon and a backslash are percent-encoded
quote(url) ==
    [i \in 1..Len(url) |->
        CASE url[i] = "http://" -> "http%3A//"
          [] url[i] = "https://" -> "https%3A//"
          [] url[i] = "ftp://" -> "ftp%3A//"
          [] url[i] = "\\" -> "%5C"
          [] url[i] = "http%3A//" -> "http%253A//"
          [] url[i] = "/?u=" -> "/%3Fu%3D"
          [] OTHER -> url[i]]

\* __inner_redirects_exhausted: the loop looks at response_.previous() in every
\* round (response_ is never moved); x rounds are left; it
\* yields the Response reference returned, 0 for None
RECURSIVE ExhaustedLoop(_, _, _)
ExhaustedLoop(resp, x, urls_redirected_to) ==
    IF x = 0 THEN 0
    ELSE LET previous == responses[resp].previous IN
         IF previous = 0 THEN 0
         ELSE IF \E i \in 1..Len(urls_redirected_to) :
                    re_search(quote(responses[previous].url), urls_redirected_to[i])
         THEN previous
         ELSE ExhaustedLoop(resp, x - 1, Append(urls_redirected_to, responses[previous].url))

inner_redirects_exhausted(resp) == ExhaustedLoop(resp, max_redirect + 1, <<>>)

\* the search for the initial response of a fetch's chain: x rounds of
\* `for x in range(self.max_redirect() + 1)` are left; yields
\* <<redirect_response, previous>> as the loop leaves them
RECURSIVE InitialLoop(_, _, _)
InitialLoop(redirect_response, previous, x) ==
    IF x = 0 THEN <<redirect_response, previous>>
    ELSE IF responses[redirect_response].previous = 0
    THEN <<redirect_response, 0>>
    ELSE InitialLoop(responses[redirect_response].previous,
                     responses[redirect_response].previous, x - 1)

\* the response that request() returned is taken for the initial one
FindInitial_not_walked(orig_redirect_response) == <<orig_redirect_response, 0>>

FindInitial(orig_redirect_response) ==
    InitialLoop(orig_redirect_response, 0, max_redirect + 1)

\* the initial response is linked to itself
SetPrevious_to_self(rs, redirect_response, resp) ==
    [rs EXCEPT ![redirect_response].previous = redirect_response]

\* redirect_response.set_previous(response_)
SetPrevious(rs, redirect_response, resp) ==
    [rs EXCEPT ![redirect_response].previous = resp]

\* only None is rejected
GetFollowRejects_none_only(url) == url = NoneUrl

\* get_follow_http_html_redirects(): the same checks of its own
GetFollowRejects(url) ==
    \/ url = NoneUrl
    \/ ~is_http_url(fix_common_url_mistakes(url))

\* the check of max_redirect is missing
ZeroMaxRedirect_unchecked == FALSE

\* get_follow_http_html_redirects(): `if self.max_redirect() == 0`
ZeroMaxRedirect == max_redirect = 0

\* the budget is not decremented
NextBudget_kept(left) == left

\* meta_redirects_left = meta_redirects_left - 1
NextBudget(left) == left - 1

CallGetFollow ==
    /\ pc = "idle"
    /\ UNCHANGED othervars
    /\ \E url \in InputUrls :
        /\ op' = [name |-> "get_follow_http_html_redirects", url |-> url]
        /\ IF GetFollowRejects(url)
           THEN Raise("McGetFollowHTTPHTMLRedirectsException") /\ UNCHANGED <<request, ret>>
           ELSE IF ZeroMaxRedirect
           THEN Raise("McGetFollowHTTPHTMLRedirectsException") /\ UNCHANGED <<request, ret>>
           ELSE Get(fix_common_url_mistakes(url), "gfr_first")
    /\ UNCHANGED <<cfgvars, web, transportvars, responses, last_response, gfrvars, logvars>>

\* response = self.get(url) returned; __inner(response, self.max_redirect()) is called
GetFollowFirst ==
    /\ pc = "gfr_first"
    /\ UNCHANGED othervars
    /\ first' = last_response
    /\ response_' = last_response
    /\ meta_redirects_left' = max_redirect
    /\ pc' = "inner"
    /\ DropLocals
    /\ UNCHANGED <<cfgvars, web, op, ret, request, responses, last_response, logvars, result>>

\* the value of __inner is returned as it is, None included
ReturnInner_as_it_is(x) == Return(x)

\* what get_follow_http_html_redirects returns for the value x of __inner
ReturnInner(x) == Return(IF x = 0 THEN first ELSE x)

\* __inner with __inner_follow_redirects up to its self.request() and
\* __inner_redirects_exhausted
Inner ==
    /\ pc = "inner"
    /\ UNCHANGED othervars
    /\ UNCHANGED <<cfgvars, web, op, transportvars, responses, last_response, gfrvars, logvars>>
    /\ IF meta_redirects_left = NoneInt
       THEN \* None > 0
            Raise("TypeError") /\ UNCHANGED <<request, ret>>
       ELSE IF meta_redirects_left > 0
       THEN IF is_success(responses[response_])
            THEN IF FiringRules(responses[response_]) # {}
                 THEN /\ request' = Request("GET",
                              RedirectTargets(responses[response_])
                                  [FirstRule(FiringRules(responses[response_]))])
                      /\ ret' = "stitch"
                      /\ pc' = "request"
                      /\ UNCHANGED result
                 ELSE ReturnInner(response_) /\ UNCHANGED <<request, ret>>
            ELSE ReturnInner(0) /\ UNCHANGED <<request, ret>>
       ELSE ReturnInner(inner_redirects_exhausted(response_)) /\ UNCHANGED <<request, ret>>

\* __inner_follow_redirects after self.request() returned: the new chain is
\* linked to response_ and __inner is called with one redirect less
Stitch ==
    /\ pc = "stitch"
    /\ UNCHANGED othervars
    /\ DropLocals
    /\ UNCHANGED <<cfgvars, web, op, ret, request, last_response, first, logvars>>
    /\ IF FindInitial(last_response)[2] # 0
       THEN /\ Raise("McGetFollowHTTPHTMLRedirectsException")
            /\ UNCHANGED <<responses, response_, meta_redirects_left>>
       ELSE /\ responses' = SetPrevious(responses, FindInitial(last_response)[1], response_)
            /\ meta_redirects_left' = NextBudget(meta_redirects_left)
            /\ response_' = last_response
            /\ pc' = "inner"
            /\ UNCHANGED result

Next ==
    \/ CallRequest
    \/ CallGet
    \/ CallGetFollow
    \/ RequestEntry
    \/ SessionSend
    \/ IterContent
    \/ RequestFinish
    \/ ApiReturn
    \/ GetFollowFirst
    \/ Inner
    \/ Stitch

Spec == Init /\ [][Next]_vars

\* one UserAgent before a call, on a web whose pages carry several redirect
\* signals
SignalInit ==
    /\ max_redirect \in {NoneInt} \cup 0..MaxRedirectBound
    /\ max_size = NoneInt
    /\ blacklist_url_pattern = NoneUrl
    /\ web \in [WebHosts -> SignalPages]
    /\ NoCall
    /\ SetterIdle
    /\ BatchIdle
    /\ LogIdle
    /\ DomainIdle

SignalSpec == SignalInit /\ [][Next]_vars

\* ------------------------------------------------------ parallel_get()
\* URLs of a batch
UrlFooExample == <<"http://", "foo.example.com">>
UrlBarExample == <<"http://", "bar.example.com">>
UrlFooBarCoUk == <<"http://", "foo.bar.co.uk">>
UrlABarCoUk == <<"http://", "a.bar.co.uk">>
UrlBBarCoUk == <<"http://", "b.bar.co.uk">>
UrlBlogLower == <<"http://", "x.blogspot.com", "/p">>
UrlBlogUpper == <<"http://", "x.blogspot.com", "/P">>
UrlBlogOther == <<"http://", "y.blogspot.com", "/p">>
UrlNumeric10 == <<"http://", "10.0.0.12">>
UrlNumeric11 == <<"http://", "11.0.0.12">>

\* host.split('.')
split_dots(host) ==
    CASE host = "foo.example.com" -> <<"foo", "example", "com">>
      [] host = "bar.example.com" -> <<"bar", "example", "com">>
      [] host = "foo.bar.co.uk" -> <<"foo", "bar", "co", "uk">>
      [] host = "a.bar.co.uk" -> <<"a", "bar", "co", "uk">>
      [] host = "b.bar.co.uk" -> <<"b", "bar", "co", "uk">>
      [] host = "x.blogspot.com" -> <<"x", "blogspot", "com">>
      [] host = "y.blogspot.com" -> <<"y", "blogspot", "com">>
      [] host = "10.0.0.12" -> <<"10", "0", "0", "12">>
      [] host = "11.0.0.12" -> <<"11", "0", "0", "12">>
      [] OTHER -> <<host>>

\* labels of exactly two characters
TwoCharLabels == {"uk", "12"}

\* re.search(r"\...$", host): a dot and two more characters end the host
EndsInDotAndTwo(name_parts) ==
    Len(name_parts) >= 2 /\ name_parts[Len(name_parts)] \in TwoCharLabels

\* re.search(r"(localhost|blogspot\.com|wordpress\.com)", host)
MultiTenantHost(name_parts) ==
    \E i \in 1..Len(name_parts) :
        \/ name_parts[i] = "localhost"
        \/ /\ i < Len(name_parts)
           /\ name_parts[i] \in {"blogspot", "wordpress"}
           /\ name_parts[i + 1] = "com"

\* a Python list index: a negative index counts from the end
PyIndex(list, k) == list[(IF k < 0 THEN Len(list) + k ELSE k) + 1]

\* __get_url_domain; '.'.join(labels) is the sequence of the labels
get_url_domain(url_) ==
    IF ~is_http_url(url_) THEN url_
    ELSE LET name_parts == split_dots(get_url_host(url_))
             n == Len(name_parts) - 1
         IN  LowerSeq(
                 IF EndsInDotAndTwo(name_parts)
                 THEN <<PyIndex(name_parts, n - 2), PyIndex(name_parts, n - 1),
                        PyIndex(name_parts, 0)>>
                 ELSE IF MultiTenantHost(name_parts)
                 THEN url_
                 ELSE <<PyIndex(name_parts, n - 1), PyIndex(name_parts, n)>>)


\* the running offset of the k-th URL (from 0) of a domain: it advances when the
\* offset given to the URL before is divisible by 5
RECURSIVE BucketTime(_, _)
BucketTime(k, per_domain_timeout_) ==
    IF k = 0 THEN 0
    ELSE LET time_ == BucketTime(k - 1, per_domain_timeout_)
         IN  IF time_ % 5 = 0 THEN time_ + per_domain_timeout_ ELSE time_

\* domain_urls: the domains in the order they were first met, each with the
\* indices of its URLs in arrival order
RECURSIVE DomainUrls(_, _, _)
DomainUrls(urls_, i, domain_urls) ==
    IF i > Len(urls_) THEN domain_urls
    ELSE LET domain == get_url_domain(urls_[i])
             known == {k \in 1..Len(domain_urls) : domain_urls[k].domain = domain}
         IN  DomainUrls(urls_, i + 1,
                 IF known = {}
                 THEN Append(domain_urls, [domain |-> domain, idx |-> <<i>>])
                 ELSE [domain_urls EXCEPT ![CHOOSE k \in known : TRUE].idx = Append(@, i)])

\* the _ParallelGetScheduledURL objects of one domain; idx tells the objects of
\* equal URLs apart
ScheduledOfDomain(urls_, bucket, per_domain_timeout_) ==
    [k \in 1..Len(bucket.idx) |->
        [url |-> urls_[bucket.idx[k]], time |-> BucketTime(k - 1, per_domain_timeout_),
         idx |-> bucket.idx[k]]]

RECURSIVE ScheduledUnsorted(_, _, _, _)
ScheduledUnsorted(urls_, domain_urls, d, per_domain_timeout_) ==
    IF d > Len(domain_urls) THEN <<>>
    ELSE ScheduledOfDomain(urls_, domain_urls[d], per_domain_timeout_)
         \o ScheduledUnsorted(urls_, domain_urls, d + 1, per_domain_timeout_)

\* a sort that puts an element before the elements of the same time
InsertByTime_unstable(sorted_, x) ==
    LET after == {k \in 1..Len(sorted_) : sorted_[k].time >= x.time}
        at == IF after = {} THEN Len(sorted_) + 1
              ELSE CHOOSE k \in after : \A j \in after : k <= j
    IN  SubSeq(sorted_, 1, at - 1) \o <<x>> \o SubSeq(sorted_, at, Len(sorted_))

\* sorted(scheduled_urls, key=lambda x: x.time): a stable sort
InsertByTime(sorted_, x) ==
    LET after == {k \in 1..Len(sorted_) : sorted_[k].time > x.time}
        at == IF after = {} THEN Len(sorted_) + 1
              ELSE CHOOSE k \in after : \A j \in after : k <= j
    IN  SubSeq(sorted_, 1, at - 1) \o <<x>> \o SubSeq(sorted_, at, Len(sorted_))

RECURSIVE SortedByTime(_, _)
SortedByTime(scheduled_urls, n) ==
    IF n = 0 THEN <<>>
    ELSE InsertByTime(SortedByTime(scheduled_urls, n - 1), scheduled_urls[n])

\* the scheduled URLs are returned as they were appended, bucket after bucket
get_scheduled_urls_unsorted(urls_, per_domain_timeout_) ==
    ScheduledUnsorted(urls_, DomainUrls(urls_, 1, <<>>), 1, per_domain_timeout_)

\* __get_scheduled_urls
get_scheduled_urls(urls_, per_domain_timeout_) ==
    LET scheduled_urls ==
            ScheduledUnsorted(urls_, DomainUrls(urls_, 1, <<>>), 1, per_domain_timeout_)
    IN  SortedByTime(scheduled_urls, Len(scheduled_urls))

\* every URL opens a block of its own
AddToBlock_always_new(blocks, block_i, scheduled_url) ==
    Append(blocks, [block_i |-> block_i, urls |-> <<scheduled_url>>])

\* url_blocks[block_i].append(url), a new block being inserted last
AddToBlock(blocks, block_i, scheduled_url) ==
    LET known == {k \in 1..Len(blocks) : blocks[k].block_i = block_i}
    IN  IF known = {}
        THEN Append(blocks, [block_i |-> block_i, urls |-> <<scheduled_url>>])
        ELSE [blocks EXCEPT ![CHOOSE k \in known : TRUE].urls = Append(@, scheduled_url)]

\* `while len(url_stack) > 0`: the block is len(url_stack) % num_parallel, the
\* URL is popped from the end of the stack
RECURSIVE PartitionLoop(_, _)
PartitionLoop(url_stack, blocks) ==
    IF Len(url_stack) = 0 THEN blocks
    ELSE PartitionLoop(SubSeq(url_stack, 1, Len(url_stack) - 1),
                       AddToBlock(blocks, Len(url_stack) % num_parallel,
                                  url_stack[Len(url_stack)]))


RECURSIVE SeqsUpTo(_, _)
SeqsUpTo(S, n) ==
    IF n = 0 THEN {<<>>}
    ELSE LET shorter == SeqsUpTo(S, n - 1)
         IN  shorter \cup {Append(q, x) : q \in {t \in shorter : Len(t) = n - 1}, x \in S}

BatchUrls == {UrlFtp, UrlA, UrlAUpper, UrlB}
WebStoreKeys == {"web_store_num_parallel", "web_store_timeout", "web_store_per_domain_timeout"}
PerDomainTimeouts == {1, 5}

PReturned(rs) == [kind |-> "response", responses |-> rs, exc |-> ""]
PRaised(exc) == [kind |-> "raise", responses |-> <<>>, exc |-> exc]

\* a process calls parallel_get with some list under some configuration
ParInit ==
    /\ max_redirect = NoneInt
    /\ max_size = NoneInt
    /\ blacklist_url_pattern = NoneUrl
    /\ UserAgentIdle
    /\ SetterIdle
    /\ urls \in {NoneBatch} \cup SeqsUpTo(BatchUrls, MaxBatch)
    /\ config_keys \in SUBSET WebStoreKeys
    /\ num_parallel \in 1..MaxParallel
    /\ per_domain_timeout \in PerDomainTimeouts
    /\ config_read = FALSE
    /\ pool = "none"
    /\ ppc = "idle"
    /\ url_blocks = <<>>
    /\ wstate = <<>>
    /\ wnext = <<>>
    /\ wresponses = <<>>
    /\ uas = <<>>
    /\ fetches = <<>>
    /\ mutated = {}
    /\ collected = 0
    /\ all_responses = <<>>
    /\ presult = NoPResult
    /\ clock = 0
    /\ wpc = <<>>
    /\ wwake = <<>>
    /\ LogIdle
    /\ DomainIdle

\* only None is taken for an empty batch
EmptyBatch_none_only(urls_) == urls_ = NoneBatch

\* `if urls is None` / `if len(urls) == 0`
EmptyBatch(urls_) == urls_ = NoneBatch \/ Len(urls_) = 0

\* parallel_get up to the submission of the blocks to the pool
ParallelGet ==
    /\ ppc = "idle"
    /\ UNCHANGED <<lockvars, filevars, domainvars>>
    /\ ppc' = IF EmptyBatch(urls) \/ config_keys # WebStoreKeys THEN "done" ELSE "collect"
    /\ UNCHANGED <<uavars, settervars, urls, config_keys, num_parallel, per_domain_timeout, uas,
                   fetches, mutated, collected, all_responses, clock>>
    /\ IF EmptyBatch(urls)
       THEN /\ presult' = PReturned(<<>>)
            /\ UNCHANGED <<config_read, pool, url_blocks, wstate, wnext, wresponses, wpc,
                           wwake>>
       ELSE /\ config_read' = TRUE
            /\ IF config_keys # WebStoreKeys
               THEN /\ presult' = PRaised("McParallelGetException")
                    /\ UNCHANGED <<pool, url_blocks, wstate, wnext, wresponses, wpc, wwake>>
               ELSE LET blocks == PartitionLoop(get_scheduled_urls(urls, per_domain_timeout),
                                                <<>>)
                    IN  /\ url_blocks' = blocks
                        /\ pool' = "open"
                        /\ wstate' = [w \in 1..Len(blocks) |-> "running"]
                        /\ wnext' = [w \in 1..Len(blocks) |-> 1]
                        /\ wresponses' = [w \in 1..Len(blocks) |-> <<>>]
                        /\ wpc' = [w \in 1..Len(blocks) |-> "time"]
                        /\ wwake' = [w \in 1..Len(blocks) |-> NoneInt]
                        /\ UNCHANGED presult

\* how ua.get_follow_http_html_redirects(url) ends in a worker, whose UserAgent
\* has the default max_redirect
gfr_outcomes(url) ==
    IF GetFollowRejects(url)
    THEN {"McGetFollowHTTPHTMLRedirectsException"}
    ELSE {"response", "TransportError"}

\* every fetch uses the instance constructed first
UserAgentFor_shared(w) == 1

\* ua = UserAgent(): a new instance for every URL
UserAgentFor(w) == Len(uas) + 1

TheLog == [kind |-> "http_request.log", id |-> 0]
TheUserAgent(id) == [kind |-> "UserAgent", id |-> id]

\* the request is fired after a sleep of one second, whatever the offset
sleep_time_one_second(url_time, time_increment) == 1

\* sleep_time = url.time - time_increment
sleep_time(url_time, time_increment) == url_time - time_increment

\* _parallel_get_web_store, the head of a round of `for url in urls`: the time
\* since start_time is read and, when it is less than the offset of the URL,
\* time.sleep() is called
TimeBy(w) ==
    /\ ppc # "idle"
    /\ UNCHANGED <<lockvars, filevars, domainvars>>
    /\ wstate[w] = "running"
    /\ wpc[w] = "time"
    /\ wnext[w] <= Len(url_blocks[w].urls)
    /\ UNCHANGED <<uavars, settervars, urls, config_keys, num_parallel, per_domain_timeout, config_read,
                   pool, ppc, url_blocks, wstate, wnext, wresponses, uas, fetches, mutated,
                   collected, all_responses, presult, clock>>
    /\ LET url == url_blocks[w].urls[wnext[w]]
           time_increment == clock
       IN  IF time_increment < url.time
           THEN /\ wpc' = [wpc EXCEPT ![w] = "sleep"]
                /\ wwake' = [wwake EXCEPT ![w] = clock + sleep_time(url.time, time_increment)]
           ELSE /\ wpc' = [wpc EXCEPT ![w] = "fetch"]
                /\ wwake' = [wwake EXCEPT ![w] = NoneInt]

\* time.sleep(sleep_time) returns, not before sleep_time has passed
WakeBy(w) ==
    /\ ppc # "idle"
    /\ UNCHANGED <<lockvars, filevars, domainvars>>
    /\ wstate[w] = "running"
    /\ wpc[w] = "sleep"
    /\ clock >= wwake[w]
    /\ wpc' = [wpc EXCEPT ![w] = "fetch"]
    /\ UNCHANGED <<uavars, settervars, urls, config_keys, num_parallel, per_domain_timeout, config_read,
                   pool, ppc, url_blocks, wstate, wnext, wresponses, uas, fetches, mutated,
                   collected, all_responses, presult, clock, wwake>>

\* _parallel_get_web_store, the rest of the round: the fetch with a new UserAgent
FetchBy(w) ==
    /\ ppc # "idle"
    /\ UNCHANGED <<lockvars, filevars, domainvars>>
    /\ wstate[w] = "running"
    /\ wpc[w] = "fetch"
    /\ wnext[w] <= Len(url_blocks[w].urls)
    /\ UNCHANGED <<uavars, settervars, urls, config_keys, num_parallel, per_domain_timeout, config_read,
                   pool, ppc, url_blocks, collected, all_responses, presult, clock, wwake>>
    /\ wpc' = [wpc EXCEPT ![w] = "time"]
    /\ LET url == url_blocks[w].urls[wnext[w]]
           ua == UserAgentFor(w)
       IN  /\ uas' = IF ua > Len(uas) THEN Append(uas, w) ELSE uas
           /\ fetches' = Append(fetches, [worker |-> w, ua |-> ua, url |-> url.url,
                                          time |-> url.time])
           /\ mutated' = mutated
                \cup {[obj |-> TheUserAgent(ua), worker |-> w]}
                \cup (IF GetFollowRejects(url.url) THEN {}
                      ELSE {[obj |-> TheLog, worker |-> w]})
           /\ \E out \in gfr_outcomes(url.url) :
                IF out = "response"
                THEN /\ wresponses' = [wresponses EXCEPT
                            ![w] = Append(@, [url |-> url.url, idx |-> url.idx, ua |-> ua])]
                     /\ wnext' = [wnext EXCEPT ![w] = @ + 1]
                     /\ UNCHANGED wstate
                ELSE /\ wstate' = [wstate EXCEPT ![w] = out]
                     /\ UNCHANGED <<wnext, wresponses>>

\* _parallel_get_web_store: `return responses`
ReturnBy(w) ==
    /\ wstate[w] = "running"
    /\ UNCHANGED <<lockvars, filevars, domainvars>>
    /\ wnext[w] > Len(url_blocks[w].urls)
    /\ wstate' = [wstate EXCEPT ![w] = "finished"]
    /\ UNCHANGED <<uavars, settervars, urls, config_keys, num_parallel, per_domain_timeout, config_read,
                   pool, ppc, url_blocks, wnext, wresponses, uas, fetches, mutated,
                   collected, all_responses, presult, clock, wpc, wwake>>

\* some worker process of the pool takes a step
WorkerTime == \E w \in 1..Len(url_blocks) : TimeBy(w)
WorkerWake == \E w \in 1..Len(url_blocks) : WakeBy(w)
WorkerFetch == \E w \in 1..Len(url_blocks) : FetchBy(w)
WorkerReturn == \E w \in 1..Len(url_blocks) : ReturnBy(w)

\* the responses of the block taken last replace the ones before
add_responses_latest_only(all_responses_, responses_) == responses_

\* all_responses = all_responses + responses
add_responses(all_responses_, responses_) == all_responses_ \o responses_

\* one round of `for result in all_results`: result.get() waits for the block
\* and raises what the worker raised
Collect ==
    /\ ppc = "collect"
    /\ UNCHANGED <<lockvars, filevars, domainvars>>
    /\ collected < Len(url_blocks)
    /\ wstate[collected + 1] # "running"
    /\ UNCHANGED <<uavars, settervars, urls, config_keys, num_parallel, per_domain_timeout, config_read,
                   pool, url_blocks, wstate, wnext, wresponses, uas, fetches, mutated,
                   clock, wpc, wwake>>
    /\ IF wstate[collected + 1] = "finished"
       THEN /\ all_responses' = add_responses(all_responses, wresponses[collected + 1])
            /\ collected' = collected + 1
            /\ UNCHANGED <<ppc, presult>>
       ELSE /\ presult' = PRaised(wstate[collected + 1])
            /\ ppc' = "done"
            /\ UNCHANGED <<all_responses, collected>>

\* pool.close(), pool.join(), pool.terminate(), `return all_responses`
ParallelGetReturn ==
    /\ ppc = "collect"
    /\ UNCHANGED <<lockvars, filevars, domainvars>>
    /\ collected = Len(url_blocks)
    /\ pool' = "closed"
    /\ presult' = PReturned(all_responses)
    /\ ppc' = "done"
    /\ UNCHANGED <<uavars, settervars, urls, config_keys, num_parallel, per_domain_timeout, config_read,
                   url_blocks, wstate, wnext, wresponses, uas, fetches, mutated,
                   collected, all_responses, clock, wpc, wwake>>

\* the longest time since start_time
MaxClock == 10

\* the largest offset of the batch: from then on no worker sleeps, whatever
\* the time is
LargestOffset ==
    LET times == {0} \cup UNION {{url_blocks[w].urls[k].time :
                                      k \in 1..Len(url_blocks[w].urls)} :
                                  w \in 1..Len(url_blocks)}
    IN  CHOOSE t \in times : \A u \in times : u <= t

\* a second passes while a worker of the pool is at work
Tick ==
    /\ ppc = "collect"
    /\ \E w \in 1..Len(wstate) : wstate[w] = "running"
    /\ clock < MaxClock
    /\ clock < LargestOffset
    /\ clock' = clock + 1
    /\ UNCHANGED <<uavars, settervars, lockvars, filevars, domainvars, urls, config_keys,
                   num_parallel, per_domain_timeout, config_read, pool, ppc, url_blocks,
                   wstate, wnext, wresponses, uas, fetches, mutated, collected,
                   all_responses, presult, wpc, wwake>>

ParNext ==
    \/ ParallelGet
    \/ Tick
    \/ WorkerTime
    \/ WorkerWake
    \/ WorkerFetch
    \/ WorkerReturn
    \/ Collect
    \/ ParallelGetReturn

ParSpec == ParInit /\ [][ParNext]_vars


\* -------------------------------------------------------- __log_request
\* the lock protocol, step by step, for process w

\* on EAGAIN the process gives up and goes on without the lock
AfterEagain_gives_up == "close"

\* `except IOError` with errno EAGAIN: log.warning(), time.sleep(0.1)
AfterEagain == "sleep"

\* the process keeps sleeping
AfterSleep_sleeps == "sleep"

\* `while True`: after the sleep, flock() is called again
AfterSleep == "flock"

\* request() reaches __log_request, which opens the file for appending
LockStart(w) ==
    /\ lpc[w] = "idle"
    /\ lpc' = [lpc EXCEPT ![w] = "flock"]
    /\ UNCHANGED <<lock, eagain>>

\* fcntl.flock(f, LOCK_EX | LOCK_NB): granted when no other open file holds
\* the lock, EAGAIN otherwise
LockTry(w) ==
    /\ lpc[w] = "flock"
    /\ IF lock \in {0, w}
       THEN lock' = w /\ lpc' = [lpc EXCEPT ![w] = "write"] /\ UNCHANGED eagain
       ELSE lock' = lock /\ lpc' = [lpc EXCEPT ![w] = AfterEagain] /\ eagain' = TRUE

\* time.sleep(0.1) is over
LockRetry(w) ==
    /\ lpc[w] = "sleep"
    /\ lpc' = [lpc EXCEPT ![w] = AfterSleep]
    /\ UNCHANGED <<lock, eagain>>

\* f.write(...)
LockWrite(w) ==
    /\ lpc[w] = "write"
    /\ lpc' = [lpc EXCEPT ![w] = "unlock"]
    /\ UNCHANGED <<lock, eagain>>

\* fcntl.flock(f, LOCK_UN)
LockUnlock(w) ==
    /\ lpc[w] = "unlock"
    /\ lock' = IF lock = w THEN 0 ELSE lock
    /\ lpc' = [lpc EXCEPT ![w] = "close"]
    /\ UNCHANGED eagain

\* the end of `with open(...) as f`: f is flushed and closed, which drops a lock
\* that f still holds; then os.chmod()
LockClose(w) ==
    /\ lpc[w] = "close"
    /\ lock' = IF lock = w THEN 0 ELSE lock
    /\ lpc' = [lpc EXCEPT ![w] = "idle"]
    /\ UNCHANGED eagain

\* URLs of the requests of the processes
LogUrls == {NoneUrl, UrlAUpper, UrlB}

\* request() is called: the URL checks of __blacklist_request_if_needed, the
\* substitution, then __log_request up to open()
LogRequest ==
    \E w \in LogWorkers : \E url \in LogUrls :
        /\ lleft[w] > 0
        /\ lpc[w] = "idle"
        /\ lleft' = [lleft EXCEPT ![w] = @ - 1]
        /\ UNCHANGED <<uavars, settervars, batchvars, domainvars, lbuffer, logfile>>
        /\ IF url = NoneUrl \/ url = EmptyUrl
           THEN UNCHANGED <<lockvars, lurl, lcalls>>
           ELSE /\ LockStart(w)
                /\ lurl' = [lurl EXCEPT ![w] = blacklist_request_if_needed(Request("GET", url)).url]
                /\ lcalls' = Append(lcalls, url)

LogFlock ==
    \E w \in LogWorkers :
        /\ LockTry(w)
        /\ UNCHANGED <<uavars, settervars, batchvars, filevars, domainvars>>

LogSleep ==
    \E w \in LogWorkers :
        /\ LockRetry(w)
        /\ UNCHANGED <<uavars, settervars, batchvars, filevars, domainvars>>

\* f.write("%s %s\n" % (sql_now(), url,)): the line is in the buffer of f
LogWrite ==
    \E w \in LogWorkers :
        /\ LockWrite(w)
        /\ lbuffer' = [lbuffer EXCEPT ![w] = lurl[w]]
        /\ UNCHANGED <<uavars, settervars, batchvars, domainvars, lurl, logfile, lcalls, lleft>>

LogUnlock ==
    \E w \in LogWorkers :
        /\ LockUnlock(w)
        /\ UNCHANGED <<uavars, settervars, batchvars, filevars, domainvars>>

\* closing f appends what its buffer holds to the file
LogClose ==
    \E w \in LogWorkers :
        /\ LockClose(w)
        /\ logfile' = IF lbuffer[w] = NoneUrl THEN logfile ELSE Append(logfile, lbuffer[w])
        /\ lbuffer' = [lbuffer EXCEPT ![w] = NoneUrl]
        /\ lurl' = [lurl EXCEPT ![w] = NoneUrl]
        /\ UNCHANGED <<uavars, settervars, batchvars, domainvars, lcalls, lleft>>

\* some processes, each with request() calls to make, under some blacklist
LogInit ==
    /\ max_redirect = NoneInt
    /\ max_size = NoneInt
    /\ blacklist_url_pattern \in {NoneUrl, <<"a">>}
    /\ UserAgentIdle
    /\ SetterIdle
    /\ BatchIdle
    /\ DomainIdle
    /\ lock = 0
    /\ lpc = [w \in LogWorkers |-> "idle"]
    /\ eagain = FALSE
    /\ lurl = [w \in LogWorkers |-> NoneUrl]
    /\ lbuffer = [w \in LogWorkers |-> NoneUrl]
    /\ logfile = <<>>
    /\ lcalls = <<>>
    /\ lleft \in [LogWorkers -> 0..MaxLogCalls]

LogNext ==
    \/ LogRequest
    \/ LogFlock
    \/ LogSleep
    \/ LogWrite
    \/ LogUnlock
    \/ LogClose

LogSpec == LogInit /\ [][LogNext]_vars


\* the lock protocol alone, among processes that call request() again and
\* again; the content of the file plays no part in it
Arrive ==
    \E w \in LogWorkers : LockStart(w) /\ UNCHANGED <<uavars, settervars, batchvars, filevars, domainvars>>
Flock ==
    \E w \in LogWorkers : LockTry(w) /\ UNCHANGED <<uavars, settervars, batchvars, filevars, domainvars>>
Sleep ==
    \E w \in LogWorkers : LockRetry(w) /\ UNCHANGED <<uavars, settervars, batchvars, filevars, domainvars>>
Write ==
    \E w \in LogWorkers : LockWrite(w) /\ UNCHANGED <<uavars, settervars, batchvars, filevars, domainvars>>
Unlock ==
    \E w \in LogWorkers : LockUnlock(w) /\ UNCHANGED <<uavars, settervars, batchvars, filevars, domainvars>>
Close ==
    \E w \in LogWorkers : LockClose(w) /\ UNCHANGED <<uavars, settervars, batchvars, filevars, domainvars>>

LockInit ==
    /\ max_redirect = NoneInt
    /\ max_size = NoneInt
    /\ blacklist_url_pattern = NoneUrl
    /\ UserAgentIdle
    /\ SetterIdle
    /\ BatchIdle
    /\ LogIdle
    /\ DomainIdle

LockNext ==
    \/ Arrive
    \/ Flock
    \/ Sleep
    \/ Write
    \/ Unlock
    \/ Close

\* a process inside __log_request goes on running
Proceed(w) ==
    /\ LockTry(w) \/ LockRetry(w) \/ LockWrite(w) \/ LockUnlock(w) \/ LockClose(w)
    /\ UNCHANGED <<uavars, settervars, batchvars, filevars, domainvars>>

\* every process that is inside __log_request keeps being scheduled; when a
\* process calls request() is up to it
LockFairSpec ==
    LockInit /\ [][LockNext]_vars /\ \A w \in LogWorkers : WF_vars(Proceed(w))


\* ------------------------------------------- __get_url_domain on its own
DomainInputs ==
    {UrlFtp, UrlB, UrlFooExample, UrlBarExample, UrlFooBarCoUk, UrlABarCoUk,
     UrlBBarCoUk, UrlBlogLower, UrlBlogUpper, UrlBlogOther, UrlNumeric10,
     UrlNumeric11}

\* two URLs of a batch meet in __get_scheduled_urls
DomainInit ==
    /\ max_redirect = NoneInt
    /\ max_size = NoneInt
    /\ blacklist_url_pattern = NoneUrl
    /\ UserAgentIdle
    /\ SetterIdle
    /\ BatchIdle
    /\ LogIdle
    /\ key_urls \in DomainInputs \X DomainInputs
    /\ domains = <<>>
    /\ sched_urls = <<>>
    /\ sched_timeout = 1
    /\ schedule = <<>>

\* domain = __get_url_domain(url_=url_), for both
GetDomains ==
    /\ domains = <<>>
    /\ domains' = <<get_url_domain(key_urls[1]), get_url_domain(key_urls[2])>>
    /\ UNCHANGED <<uavars, settervars, batchvars, lockvars, filevars, key_urls,
                   sched_urls, sched_timeout, schedule>>

DomainNext == GetDomains

DomainSpec == DomainInit /\ [][DomainNext]_vars

\* --------------------------------------- __get_scheduled_urls on its own
\* the longest batch scheduled
MaxSchedule == 7

\* two URLs of one domain and one of another
ScheduleUrls == {UrlA, UrlAUpper, UrlB}

\* web_store_per_domain_timeout
ScheduleTimeouts == 1..5

\* parallel_get is about to schedule a batch, which is not empty
ScheduleInit ==
    /\ max_redirect = NoneInt
    /\ max_size = NoneInt
    /\ blacklist_url_pattern = NoneUrl
    /\ UserAgentIdle
    /\ SetterIdle
    /\ BatchIdle
    /\ LogIdle
    /\ key_urls = <<>>
    /\ domains = <<>>
    /\ sched_urls \in SeqsUpTo(ScheduleUrls, MaxSchedule) \ {<<>>}
    /\ sched_timeout \in ScheduleTimeouts
    /\ schedule = <<>>

\* url_stack = __get_scheduled_urls(urls_=urls, per_domain_timeout_=per_domain_timeout)
GetScheduledUrls ==
    /\ schedule = <<>>
    /\ schedule' = get_scheduled_urls(sched_urls, sched_timeout)
    /\ UNCHANGED <<uavars, settervars, batchvars, lockvars, filevars, key_urls,
                   domains, sched_urls, sched_timeout>>

ScheduleNext == GetScheduledUrls

ScheduleSpec == ScheduleInit /\ [][ScheduleNext]_vars

\* --------------------------------------------------------- the setters
\* the variables of a call, which no setter touches
callvars == <<blacklist_url_pattern, web, op, pc, ret, request, cur_url, rq_history,
              outcome, stream, chunks, response_data_size, responses, last_response,
              first, response_, meta_redirects_left, requested, dispatched, auditlog,
              nexec, result>>

DETERMINED_HTTP_CODES == {408, 500, 502, 503, 504, 429}

\* integers given to set_timeout, set_max_redirect and set_max_size
IntArgs == -1..2
\* delays of a timing list
TimingDelays == {1, 2, 4}

SetterReturned(name, arg_none, arg_int, arg_list) ==
    [name |-> name, arg_none |-> arg_none, arg_int |-> arg_int, arg_list |-> arg_list,
     raised |-> ""]
SetterRaised(name, arg_int, arg_list) ==
    [name |-> name, arg_none |-> FALSE, arg_int |-> arg_int, arg_list |-> arg_list,
     raised |-> "McUserAgentException"]

\* only a negative timeout is rejected
TimeoutRejected_negative_only(n) == n < 0

\* set_timeout: `if timeout <= 0`
TimeoutRejected(n) == n <= 0

\* set_timeout(None) or set_timeout(n)
SetTimeout ==
    /\ nset < MaxSetterCalls
    /\ nset' = nset + 1
    /\ UNCHANGED <<max_redirect, max_size, callvars, timing, retries>>
    /\ UNCHANGED <<batchvars, lockvars, filevars, domainvars>>
    /\ \/ /\ timeout' = NoneInt
          /\ setter' = SetterReturned("set_timeout", TRUE, 0, <<>>)
       \/ \E n \in IntArgs :
            IF TimeoutRejected(n)
            THEN /\ setter' = SetterRaised("set_timeout", n, <<>>)
                 /\ UNCHANGED timeout
            ELSE /\ timeout' = n
                 /\ setter' = SetterReturned("set_timeout", FALSE, n, <<>>)

\* set_max_redirect(None) or set_max_redirect(n): `if max_redirect < 0`
SetMaxRedirect ==
    /\ nset < MaxSetterCalls
    /\ nset' = nset + 1
    /\ UNCHANGED <<max_size, callvars, timeout, timing, retries>>
    /\ UNCHANGED <<batchvars, lockvars, filevars, domainvars>>
    /\ \/ /\ max_redirect' = NoneInt
          /\ setter' = SetterReturned("set_max_redirect", TRUE, 0, <<>>)
       \/ \E n \in IntArgs :
            IF n < 0
            THEN /\ setter' = SetterRaised("set_max_redirect", n, <<>>)
                 /\ UNCHANGED max_redirect
            ELSE /\ max_redirect' = n
                 /\ setter' = SetterReturned("set_max_redirect", FALSE, n, <<>>)

\* the value is stored before it is checked
max_size_when_rejected_stored(max_size_, n) == n

\* set_max_size raises before `self.__max_size = max_size` is reached
max_size_when_rejected(max_size_, n) == max_size_

\* set_max_size(None) or set_max_size(n): `if max_size <= 0`
SetMaxSize ==
    /\ nset < MaxSetterCalls
    /\ nset' = nset + 1
    /\ UNCHANGED <<max_redirect, callvars, timeout, timing, retries>>
    /\ UNCHANGED <<batchvars, lockvars, filevars, domainvars>>
    /\ \/ /\ max_size' = NoneInt
          /\ setter' = SetterReturned("set_max_size", TRUE, 0, <<>>)
       \/ \E n \in IntArgs :
            IF n <= 0
            THEN /\ setter' = SetterRaised("set_max_size", n, <<>>)
                 /\ max_size' = max_size_when_rejected(max_size, n)
            ELSE /\ max_size' = n
                 /\ setter' = SetterReturned("set_max_size", FALSE, n, <<>>)

\* the first delay is taken for the factor, whatever the length
backoff_factor_first(t) == t[1]

\* backoff_factor of set_timing
backoff_factor(t) == IF Len(t) = 1 THEN t[1] ELSE t[2] - t[1]

\* Retry(total=len(timing), backoff_factor=backoff_factor,
\*       status_forcelist=self.DETERMINED_HTTP_CODES)
Retry(t) ==
    [enabled |-> TRUE, total |-> Len(t), backoff_factor |-> backoff_factor(t),
     status_forcelist |-> DETERMINED_HTTP_CODES]

\* set_timing(None), set_timing(list) or set_timing(something that is no list)
SetTiming ==
    /\ nset < MaxSetterCalls
    /\ nset' = nset + 1
    /\ UNCHANGED <<max_redirect, max_size, callvars, timeout>>
    /\ UNCHANGED <<batchvars, lockvars, filevars, domainvars>>
    /\ \/ /\ timing' = NoneTiming
          /\ retries' = NoRetries
          /\ setter' = SetterReturned("set_timing", TRUE, 0, <<>>)
       \/ \E t \in SeqsUpTo(TimingDelays, MaxTimingLen) :
            /\ setter' = SetterReturned("set_timing", FALSE, 0, t)
            /\ IF Len(t) = 0
               THEN timing' = NoneTiming /\ retries' = NoRetries
               ELSE timing' = TimingOf(t) /\ retries' = Retry(t)
       \/ /\ setter' = SetterRaised("set_timing", 0, <<>>)
          /\ UNCHANGED <<timing, retries>>

\* a UserAgent as __init__ leaves it
SetterInit ==
    /\ max_redirect = DEFAULT_MAX_REDIRECT
    /\ max_size = DEFAULT_MAX_SIZE
    /\ blacklist_url_pattern = NoneUrl
    /\ UserAgentIdle
    /\ SetterIdle
    /\ BatchIdle
    /\ LogIdle
    /\ DomainIdle

SetterNext ==
    \/ SetTimeout
    \/ SetMaxRedirect
    \/ SetMaxSize
    \/ SetTiming

SetterSpec == SetterInit /\ [][SetterNext]_vars


\* ------------------------------------------------------------------ claims
InCall(name) == op.name = name /\ pc # "idle"
NoExecutorCall == nexec = 0 /\ dispatched = <<>> /\ auditlog = <<>>

\* the URL contains the pattern, letter case aside
ContainsIgnoringCase(pattern, url) ==
    \E i \in 1..Len(url) : \E j \in i..Len(url) :
        LowerSeq(SubSeq(url, i, j)) = LowerSeq(pattern)

BlacklistMatches(url) ==
    /\ blacklist_url_pattern # NoneUrl
    /\ blacklist_url_pattern # EmptyUrl
    /\ url # NoneUrl
    /\ ContainsIgnoringCase(blacklist_url_pattern, url)

\* C1: whenever request() is called with a URL that matches the non-empty
\* blacklist pattern, letter case aside, the URL it hands to the network is
\* http://blacklistedsite.localhost/<original-url>, never the original URL.
C1_BlacklistedNeverDialed ==
    \A i \in 1..Len(dispatched) :
        BlacklistMatches(requested[dispatched[i].call]) =>
            /\ dispatched[i].url =
                 <<"http://", "blacklistedsite.localhost", "/">>
                     \o requested[dispatched[i].call]
            /\ dispatched[i].url # requested[dispatched[i].call]

\* a request for http://A was dispatched under the pattern "a"
C1_Witness ==
    \E i \in 1..Len(dispatched) :
        /\ BlacklistMatches(requested[dispatched[i].call])
        /\ requested[dispatched[i].call] = UrlAUpper
        /\ blacklist_url_pattern = <<"a">>

\* C2: get_follow_http_html_redirects on a UserAgent whose max_redirect is 0
\* raises McGetFollowHTTPHTMLRedirectsException with no call of the executor:
\* nothing dispatched, no line in the audit log.
C2_ZeroMaxRedirectRaisesFirst ==
    (InCall("get_follow_http_html_redirects") /\ max_redirect = 0) =>
        /\ result = Raised("McGetFollowHTTPHTMLRedirectsException")
        /\ NoExecutorCall

\* the call was made with an HTTP URL and max_redirect = 0
C2_Witness ==
    /\ InCall("get_follow_http_html_redirects")
    /\ max_redirect = 0
    /\ op.url = UrlB
    /\ pc = "done"

\* C3: for a URL that is None or not an http/https URL, get() raises
\* McGetException and get_follow_http_html_redirects() raises
\* McGetFollowHTTPHTMLRedirectsException, and request() is never reached: no
\* network call, no line in the audit log.
C3_NonHttpUrlRejected ==
    (op.url = NoneUrl \/ ~is_http_url(op.url)) =>
        /\ InCall("get") =>
            (result = Raised("McGetException") /\ NoExecutorCall)
        /\ InCall("get_follow_http_html_redirects") =>
            (result = Raised("McGetFollowHTTPHTMLRedirectsException") /\ NoExecutorCall)

\* get_follow_http_html_redirects was called with an ftp URL
C3_Witness ==
    /\ op.name = "get_follow_http_html_redirects"
    /\ op.url = UrlFtp
    /\ pc = "done"
    /\ max_redirect # 0

\* the program keeps running: some step is taken whenever one is possible
FairSpec == Spec /\ WF_vars(Next)

PositiveMaxRedirect == max_redirect # NoneInt /\ max_redirect > 0

\* C4: for a positive max_redirect and whatever the pages serve (cycles of
\* application-layer redirects included), get_follow_http_html_redirects
\* terminates and calls the executor at most 1 + max_redirect times: the budget
\* strictly decreases with every followed redirect, never goes below 0, and no
\* fetch is issued once it is 0.
C4_BoundedResolution ==
    /\ []((InCall("get_follow_http_html_redirects") /\ PositiveMaxRedirect) =>
            /\ nexec <= 1 + max_redirect
            /\ (pc \in {"inner", "stitch"} => meta_redirects_left >= 0)
            /\ ((ret = "stitch" /\ pc \in {"request", "send", "stream", "finish", "stitch"})
                    => meta_redirects_left > 0))
    /\ [][(PositiveMaxRedirect /\ pc = "stitch" /\ pc' = "inner") =>
            meta_redirects_left' < meta_redirects_left]_vars
    /\ [][(PositiveMaxRedirect /\ pc = "inner" /\ meta_redirects_left = 0) =>
            (nexec' = nexec /\ pc' = "done")]_vars
    /\ ((InCall("get_follow_http_html_redirects") /\ PositiveMaxRedirect) ~> (pc = "done"))

\* the resolution used its whole budget on a cycle of meta refreshes a -> b -> a
C4_Witness ==
    /\ InCall("get_follow_http_html_redirects")
    /\ max_redirect = 2
    /\ nexec = 3
    /\ meta_redirects_left = 0
    /\ pc = "done"
    /\ web["a"].content.meta_refresh = UrlB
    /\ web["b"].content.meta_refresh = UrlA

\* number of responses on the `previous` chain of response i, itself included;
\* Len(responses) + 1 when the chain does not end
RECURSIVE ChainLen(_, _)
ChainLen(i, fuel) ==
    IF i = 0 \/ fuel = 0 THEN 0
    ELSE 1 + ChainLen(responses[i].previous, fuel - 1)
ChainLength(i) == ChainLen(i, Len(responses) + 1)

\* the response j `previous` links behind response i
RECURSIVE NthPrevious(_, _)
NthPrevious(i, j) == IF j = 0 THEN i ELSE NthPrevious(responses[i].previous, j - 1)

AtReturnOfRequest == pc \in {"api", "gfr_first", "stitch"}

\* C5: every response built during get_follow_http_html_redirects has at most
\* max_redirect + 1 responses on its `previous` chain, itself included, also
\* when HTTP redirects and application-layer redirects are combined.
C5_ChainBounded ==
    (InCall("get_follow_http_html_redirects") /\ PositiveMaxRedirect) =>
        \A i \in 1..Len(responses) : ChainLength(i) <= max_redirect + 1

\* C6: the `previous` links never form a cycle: from every response, following
\* `previous` reaches None without visiting a response twice, also after a new
\* fetch's chain was linked to the prior response.
C6_ChainsAcyclic ==
    \A i \in 1..Len(responses) : ChainLength(i) <= Len(responses)

\* two fetches that each followed an HTTP redirect were linked into one chain
C6_Witness ==
    /\ InCall("get_follow_http_html_redirects")
    /\ pc = "inner"
    /\ nexec = 2
    /\ Len(responses) = 4
    /\ ChainLength(response_) = 4

\* C7: when the transport followed N < max_redirect HTTP redirects to a final
\* page, the Response that request() returns has exactly N `previous` links,
\* which visit the transport's history newest first, each with the URL of its
\* own request; the oldest one has the URL that was requested and no previous.
C7_HistoryBecomesChain ==
    (/\ AtReturnOfRequest
     /\ outcome.class = "response"
     /\ max_redirect # NoneInt
     /\ Len(rq_history) < max_redirect) =>
        LET N == Len(rq_history) IN
        /\ ChainLength(last_response) = N + 1
        /\ \A j \in 1..N :
              responses[NthPrevious(last_response, j)].url = rq_history[N - j + 1].url
        /\ responses[NthPrevious(last_response, N)].url = dispatched[Len(dispatched)].url
        /\ responses[NthPrevious(last_response, N)].previous = 0

\* request() returns after the transport followed one redirect out of two allowed
C7_Witness ==
    /\ pc = "api"
    /\ outcome.class = "response"
    /\ max_redirect = 2
    /\ Len(rq_history) = 1
    /\ rq_history[1].url # cur_url

FirstHasMetaRefresh ==
    /\ InCall("get_follow_http_html_redirects")
    /\ PositiveMaxRedirect
    /\ first # 0
    /\ is_success(responses[first])
    /\ responses[first].content.meta_refresh # NoneUrl
    /\ responses[first].content.meta_refresh # responses[first].url

\* C8: when the first response is successful and its body has a meta refresh to
\* another URL than its request's, the resolver calls the executor a second time
\* for that URL, sets `previous` of the oldest response of that fetch's chain to
\* the first response, and takes exactly one off the budget.
C8_MetaRefreshFollowed ==
    FirstHasMetaRefresh =>
        /\ pc = "done" => nexec >= 2
        /\ nexec >= 2 => requested[2] = responses[first].content.meta_refresh
        /\ (nexec = 2 /\ pc \in {"inner", "done"} /\ result.kind # "raise") =>
              \* the latest fetch built responses last_response..Len(responses),
              \* the oldest hop last
              /\ NthPrevious(last_response, Len(responses) - last_response) = Len(responses)
              /\ responses[Len(responses)].previous = first
              /\ meta_redirects_left = max_redirect - 1

\* the second fetch followed an HTTP redirect of its own before it was linked
C8_Witness ==
    /\ FirstHasMetaRefresh
    /\ nexec = 2
    /\ pc = "inner"
    /\ Len(responses) > last_response

\* C9: with max_size set, streaming stops right after the first chunk with
\* which the accumulated size exceeds max_size and reads no later chunk; a body
\* of at most max_size is read completely, to the end of the stream; in both
\* cases request() returns a Response and does not raise.
C9_StopsAtFirstExcess ==
    (max_size # NoneInt /\ outcome.class = "response") =>
        /\ response_data_size = SumSeq(chunks)
        \* every chunk but the last one was read with the size still under the cap
        /\ chunks # <<>> => SumSeq(SubSeq(chunks, 1, Len(chunks) - 1)) <= max_size
        \* the loop goes on only under the cap, and closes the stream only above it
        /\ stream = "open" => (pc = "stream" /\ response_data_size <= max_size)
        /\ stream = "closed" => response_data_size > max_size
        /\ (pc = "finish" \/ AtReturnOfRequest) =>
              /\ response_data_size > max_size => stream = "closed"
              /\ response_data_size <= max_size => stream = "ended"
        /\ AtReturnOfRequest => last_response = Len(responses) - Len(rq_history)
        /\ result = Raised("TransportError") =>
              (stream = "broken" /\ response_data_size <= max_size)

\* the second chunk exceeded the cap: the stream was closed, request() returned
C9_Witness ==
    /\ max_size = 2
    /\ AtReturnOfRequest
    /\ outcome.class = "response"
    /\ chunks = <<1, 2>>
    /\ stream = "closed"

WellFormed(rq) ==
    /\ ~rq.none
    /\ rq.url # NoneUrl
    /\ rq.url # EmptyUrl
    /\ rq.method # "None"
    /\ (rq.auth_username = "None") = (rq.auth_password = "None")
    /\ (rq.auth_username = "") = (rq.auth_password = "")

\* C10: for a well-formed request, request() never raises because of a
\* transport fault, at whatever stage it occurs, the streaming of the body
\* included; every such fault yields a Response with the client-side-error mark.
C10_TransportFaultNeverRaised ==
    (InCall("request") /\ WellFormed(request)) =>
        /\ result.kind # "raise"
        /\ (AtReturnOfRequest /\ outcome.class \in {"timeout", "fault"}) =>
              (last_response # 0 /\ responses[last_response].error_is_client_side)

\* ------------------------------------------------- claims on parallel_get
BatchRan == ppc = "done" /\ urls # NoneBatch /\ urls # <<>> /\ config_keys = WebStoreKeys

\* C11: parallel_get never raises because of a bad URL in the batch, such as a
\* non-HTTP URL: when no transport fault interrupts a worker, the call returns a
\* list of responses.
C11_BadUrlNeverRaises ==
    (BatchRan /\ \A w \in 1..Len(wstate) : wstate[w] # "TransportError") =>
        presult.kind = "response"

\* C12: parallel_get(None) and parallel_get([]) return an empty list and do not
\* raise; they do not read the configuration, so it does not matter whether the
\* web_store_* keys are there; no pool is created and nothing is fetched.
C12_EmptyBatchReturnsEmpty ==
    ((urls = NoneBatch \/ urls = <<>>) /\ ppc = "done") =>
        /\ presult = PReturned(<<>>)
        /\ ~config_read
        /\ pool = "none"
        /\ url_blocks = <<>>
        /\ fetches = <<>>

\* parallel_get([]) returned under a configuration without the web_store_* keys
C12_Witness ==
    /\ urls = <<>>
    /\ config_keys = {}
    /\ ppc = "done"
    /\ presult = PReturned(<<>>)

\* C15: no two workers of a batch use the same UserAgent: every fetch is made on
\* an instance that the fetching worker constructed, and the audit log is the
\* only object that more than one worker mutates.
C15_NoSharedUserAgent ==
    /\ \A i \in 1..Len(fetches) :
          /\ fetches[i].ua \in 1..Len(uas)
          /\ uas[fetches[i].ua] = fetches[i].worker
    /\ \A i, j \in 1..Len(fetches) :
          fetches[i].worker # fetches[j].worker => fetches[i].ua # fetches[j].ua
    /\ \A p, q \in mutated :
          (p.obj = q.obj /\ p.worker # q.worker) => p.obj = TheLog

\* two workers fetched a URL each, and both appended to the audit log
C15_Witness ==
    /\ \E i, j \in 1..Len(fetches) : fetches[i].worker # fetches[j].worker
    /\ [obj |-> TheLog, worker |-> 1] \in mutated
    /\ [obj |-> TheLog, worker |-> 2] \in mutated

\* ----------------------------------------------- claims on the audit log
\* the line that a request() call for url has to leave in the log
ExpectedLine(url) ==
    IF BlacklistMatches(url)
    THEN <<"http://", "blacklistedsite.localhost", "/">> \o url
    ELSE url

Occurrences(lines, line) == Cardinality({i \in 1..Len(lines) : lines[i] = line})

\* C13: with concurrent processes, every request() call that passes the URL
\* checks appends exactly one line to the audit log, with the URL as it is after
\* the blacklist substitution; no line is skipped because of EAGAIN: once all
\* processes are through, the log has as many lines as there were such calls.
C13_OneLinePerCall ==
    /\ Len(logfile) + Cardinality({w \in LogWorkers : lpc[w] # "idle"}) = Len(lcalls)
    /\ (\A w \in LogWorkers : lpc[w] = "idle") =>
          /\ Len(logfile) = Len(lcalls)
          /\ \A i \in 1..Len(lcalls) :
                Occurrences(logfile, ExpectedLine(lcalls[i]))
                    = Cardinality({j \in 1..Len(lcalls) :
                                      ExpectedLine(lcalls[j]) = ExpectedLine(lcalls[i])})

\* three processes appended a line each, one of them for a blacklisted URL, and
\* flock() had failed with EAGAIN on the way
C13_Witness ==
    /\ \A w \in LogWorkers : lpc[w] = "idle"
    /\ eagain
    /\ Len(logfile) = 3
    /\ \E i \in 1..Len(logfile) :
          logfile[i] = <<"http://", "blacklistedsite.localhost", "/">> \o UrlAUpper

\* C14 as stated: the lock protocol never deadlocks: provided every holder
\* releases the lock, every process that polls for it eventually acquires it
\* and completes its append.
C14_EveryPollerAcquires ==
    \A w \in LogWorkers :
        /\ (lpc[w] = "sleep") ~> (lpc[w] = "write")
        /\ (lpc[w] = "write") ~> (lpc[w] = "idle")

\* C14, amended: the lock protocol never deadlocks: whenever processes poll for
\* the lock, some process eventually acquires it, and every process that has
\* acquired it completes its append and releases it; a given process that polls
\* eventually acquires the lock once the other processes stop starting appends.
C14_NoDeadlock ==
    /\ (\E w \in LogWorkers : lpc[w] = "sleep") ~> (\E w \in LogWorkers : lpc[w] = "write")
    /\ \A w \in LogWorkers :
          /\ (lpc[w] = "write") ~> (lpc[w] = "idle" /\ lock # w)
          /\ (<>[](\A v \in LogWorkers \ {w} : lpc[v] = "idle"))
                => ((lpc[w] = "sleep") ~> (lpc[w] = "write"))

\* process 1 sleeps after an EAGAIN while process 2 holds the lock and process
\* 3 polls as well
C14_Witness ==
    /\ lpc[1] = "sleep"
    /\ lock = 2
    /\ lpc[2] = "unlock"
    /\ lpc[3] = "flock"
    /\ logfile = <<>>

\* -------------------------------------------- claims on the domain keys
HostLabels(url) == split_dots(get_url_host(url))
LastLabel(url) == HostLabels(url)[Len(HostLabels(url))]

\* the host ends in a label of two letters
CountryStyle(url) == is_http_url(url) /\ Len(HostLabels(url)) >= 2 /\ LastLabel(url) = "uk"

\* the host contains localhost, blogspot.com or wordpress.com
MultiTenant(url) ==
    \E i \in 1..Len(HostLabels(url)) :
        \/ HostLabels(url)[i] = "localhost"
        \/ /\ i < Len(HostLabels(url))
           /\ HostLabels(url)[i] \in {"blogspot", "wordpress"}
           /\ HostLabels(url)[i + 1] = "com"

LastTwoLabels(url) ==
    SubSeq(HostLabels(url), Len(HostLabels(url)) - 1, Len(HostLabels(url)))

\* C16: the domain key of an HTTP URL whose host does not end in a two-letter
\* label is the whole lower-cased URL when the host contains localhost,
\* blogspot.com or wordpress.com, so that two different URLs never share a
\* bucket, and the last two labels of the host otherwise, so that hosts with the
\* same last two labels share a bucket; a non-HTTP URL is its own key; a
\* country-style host never has the key of a host like foo.example.com.
C16_DomainKey ==
    domains # <<>> =>
        /\ \A i \in 1..2 :
              LET url == key_urls[i] IN
              /\ ~is_http_url(url) => domains[i] = url
              /\ (is_http_url(url) /\ ~CountryStyle(url) /\ MultiTenant(url)) =>
                    domains[i] = LowerSeq(url)
              /\ (/\ is_http_url(url)
                  /\ ~CountryStyle(url)
                  /\ ~MultiTenant(url)
                  /\ Len(HostLabels(url)) >= 2) =>
                    domains[i] = LastTwoLabels(url)
        /\ (/\ \A i \in 1..2 : is_http_url(key_urls[i]) /\ ~CountryStyle(key_urls[i])
            /\ MultiTenant(key_urls[1])
            /\ MultiTenant(key_urls[2])
            /\ key_urls[1] # key_urls[2]) =>
              domains[1] # domains[2]
        /\ (/\ \A i \in 1..2 :
                  /\ is_http_url(key_urls[i])
                  /\ ~CountryStyle(key_urls[i])
                  /\ ~MultiTenant(key_urls[i])
                  /\ Len(HostLabels(key_urls[i])) >= 2
            /\ LastTwoLabels(key_urls[1]) = LastTwoLabels(key_urls[2])) =>
              domains[1] = domains[2]
        /\ (CountryStyle(key_urls[1]) /\ is_http_url(key_urls[2]) /\ ~CountryStyle(key_urls[2])) =>
              domains[1] # domains[2]

\* ------------------------------------- claims on the redirect resolver
ResolverReturned ==
    /\ InCall("get_follow_http_html_redirects")
    /\ pc = "done"
    /\ result.kind = "response"
    /\ response_ # 0

\* C17: when the latest response is successful and no redirect signal gives
\* another URL than its request's, the resolver stops and returns that latest
\* response, after any number of followed hops, the hop that uses up the budget
\* included.
C17_StablePageReturned ==
    (/\ ResolverReturned
     /\ is_success(responses[response_])
     /\ FiringRules(responses[response_]) = {}) =>
        result.id = response_

\* the walk of the claim: every prior hop in turn, each checked against the
\* URLs of the hops scanned before it
RECURSIVE WalkBack(_, _)
WalkBack(resp, scanned) ==
    LET previous == responses[resp].previous IN
    IF previous = 0 THEN 0
    ELSE IF \E i \in 1..Len(scanned) :
               ContainsIgnoringCase(quote(responses[previous].url), scanned[i])
    THEN previous
    ELSE WalkBack(previous, Append(scanned, responses[previous].url))

\* C18: with the budget used up, the resolver walks the previous chain back
\* from the last response through every prior hop and returns the first prior
\* hop whose URL-encoded request URL is part of the URL of a hop scanned before
\* it, also when that hop is not the first response.
C18_EmbeddedHopReturned ==
    (/\ ResolverReturned
     /\ PositiveMaxRedirect
     /\ meta_redirects_left = 0
     /\ WalkBack(response_, <<>>) # 0) =>
        result.id = WalkBack(response_, <<>>)

\* C19: when a response fetched during the resolution, the first one or a later
\* hop, is unsuccessful, the resolver fetches nothing more and returns the very
\* first response.
C19_UnsuccessfulReturnsFirst ==
    (/\ InCall("get_follow_http_html_redirects")
     /\ pc \in {"inner", "done"}
     /\ response_ # 0
     /\ ~is_success(responses[response_])) =>
        /\ response_ = last_response
        /\ pc = "done" => result = Returned(first)

\* C20: when, after the first response, a follow step does not produce a
\* response, because the executor raises for the redirect target or because the
\* initial response of the target's chain is not found, the resolver returns the
\* first response and does not raise.
C20_FollowFailureReturnsFirst ==
    (/\ InCall("get_follow_http_html_redirects")
     /\ first # 0
     /\ nexec >= 2
     /\ pc = "done") =>
        result.kind = "response"

\* the URLs the five signals of the claim yield for response r, in its order
SignalsInOrder(r) ==
    <<r.content.meta_refresh, r.content.archive_org, r.content.archive_is,
      r.content.linkis_com, r.content.alarabiya>>

\* signal i of r yields a URL, and another one than the request URL of r
YieldsOtherUrl(r, i) == SignalsInOrder(r)[i] # NoneUrl /\ SignalsInOrder(r)[i] # r.url

\* C21: on a successful response the signals are consulted in the order meta
\* refresh, archive.org, archive.is, linkis.com, alarabiya: the hop that is
\* followed is the first signal that yields another URL than the response's
\* request URL, signals that yield nothing or the same URL being passed over;
\* with budget left such a signal is always followed, and every hop is one
\* fetch.
C21_SignalOrder ==
    /\ [][(InCall("get_follow_http_html_redirects") /\ pc = "inner" /\ pc' = "request") =>
            /\ is_success(responses[response_])
            /\ \E i \in 1..5 :
                /\ YieldsOtherUrl(responses[response_], i)
                /\ \A j \in 1..(i - 1) : ~YieldsOtherUrl(responses[response_], j)
                /\ request'.url = SignalsInOrder(responses[response_])[i]
            /\ nexec' = nexec]_vars
    /\ [][(/\ InCall("get_follow_http_html_redirects")
           /\ pc = "inner"
           /\ meta_redirects_left > 0
           /\ is_success(responses[response_])
           /\ \E i \in 1..5 : YieldsOtherUrl(responses[response_], i)) =>
            pc' = "request"]_vars
    /\ [][(InCall("get_follow_http_html_redirects") /\ ret = "stitch" /\ pc = "request") =>
            nexec' = nexec + 1]_vars
    /\ []((InCall("get_follow_http_html_redirects") /\ pc = "inner" /\ max_redirect # NoneInt) =>
            nexec = 1 + (max_redirect - meta_redirects_left))

\* the meta refresh of http://c pointed to http://c itself and was passed over;
\* the hop went to the URL of the archive.is rule
C21_Witness ==
    /\ InCall("get_follow_http_html_redirects")
    /\ pc = "stitch"
    /\ responses[response_].url = UrlC
    /\ responses[response_].content.meta_refresh = UrlC
    /\ responses[response_].content.archive_is = UrlB
    /\ responses[last_response].url = UrlB
    /\ responses[last_response].previous = 0

\* C22: with max_redirect unset (None) the redirect budget is unlimited:
\* get_follow_http_html_redirects on a valid HTTP URL is not rejected and, once
\* its first fetch has given a response, ends by returning a Response, never by
\* raising.
C22_UnsetMaxRedirectUnlimited ==
    (/\ InCall("get_follow_http_html_redirects")
     /\ max_redirect = NoneInt
     /\ op.url # NoneUrl
     /\ is_http_url(op.url)
     /\ first # 0
     /\ pc = "done") =>
        result.kind = "response"

\* C23: request() gives every outcome of the dispatch one class: a timeout of
\* the transport becomes a Response with status 408 and the client-side-error
\* mark; any other fault of the transport one with status 400, the reason
\* "Client-side error", the Client-Warning header and the mark; too many
\* redirects give the partial response of the transport and a server response
\* keeps its status, both without the mark.  The mark is there exactly for a
\* timeout or another fault, and these synthesized responses have no previous.
C23_OutcomeClassified ==
    AtReturnOfRequest =>
        /\ last_response # 0
        /\ outcome.class \in {"timeout", "fault", "too_many_redirects", "response"}
        /\ outcome.class = "timeout" =>
              /\ responses[last_response].status = 408
              /\ responses[last_response].error_is_client_side
              /\ responses[last_response].previous = 0
        /\ outcome.class = "fault" =>
              /\ responses[last_response].status = 400
              /\ responses[last_response].reason = "Client-side error"
              /\ responses[last_response].client_warning
              /\ responses[last_response].error_is_client_side
              /\ responses[last_response].previous = 0
        /\ outcome.class \in {"too_many_redirects", "response"} =>
              /\ responses[last_response].status = web[get_url_host(cur_url)].status
              /\ ~responses[last_response].error_is_client_side
              /\ ~responses[last_response].client_warning
        /\ responses[last_response].error_is_client_side <=>
              outcome.class \in {"timeout", "fault"}

\* http://b redirected to a host that timed out: the 408 response stands alone
C23_Witness ==
    /\ AtReturnOfRequest
    /\ outcome.class = "timeout"
    /\ request.url = UrlB
    /\ web["b"].k = "redirect"
    /\ responses[last_response].status = 408
    /\ responses[last_response].previous = 0

\* C24: with max_size configured, the body of a Response that request() returns
\* is never longer than max_size, whatever the sizes of the chunks the transport
\* delivers.
C24_BodySizeCapped ==
    (AtReturnOfRequest /\ max_size # NoneInt /\ outcome.class = "response") =>
        response_data_size <= max_size

\* C25: when request() rejects its request because the request is None, its URL
\* is None or empty, or its method is None, it raises before any side effect:
\* no line has been appended to the audit log and nothing has been dispatched.
C25_ValidationFailsFast ==
    (/\ InCall("request")
     /\ pc = "done"
     /\ result.kind = "raise"
     /\ \/ request.none
        \/ request.url \in {NoneUrl, EmptyUrl}
        \/ request.method = "None") =>
        /\ auditlog = <<>>
        /\ dispatched = <<>>

\* a Request that passes the checks made before the authentication pair is read
ValidButForAuth(rq) ==
    /\ ~rq.none
    /\ rq.url \notin {NoneUrl, EmptyUrl}
    /\ rq.method # "None"

\* the mismatch of the claim: one of the two is None and the other is not, or
\* both are present and exactly one is the empty string
MismatchedPair(un, pw) ==
    \/ (un = "None") # (pw = "None")
    \/ un # "None" /\ pw # "None" /\ (un = "") # (pw = "")

\* C26: for a request that is valid otherwise, request() raises
\* McRequestException without dispatching exactly when the authentication pair
\* is mismatched; a pair that is both None, both empty or both non-empty is
\* accepted and the request is dispatched.
C26_AuthPairChecked ==
    (InCall("request") /\ ValidButForAuth(request) /\ pc # "request") =>
        IF MismatchedPair(request.auth_username, request.auth_password)
        THEN /\ pc = "done"
             /\ result = Raised("McRequestException")
             /\ dispatched = <<>>
        ELSE /\ dispatched # <<>>
             /\ result # Raised("McRequestException")

\* the user name is empty and the password is not: rejected, nothing dispatched
C26_Witness ==
    /\ InCall("request")
    /\ pc = "done"
    /\ request.auth_username = ""
    /\ request.auth_password = "u"
    /\ result = Raised("McRequestException")
    /\ dispatched = <<>>

\* C27: every line reaches the log file while its writer holds the exclusive
\* lock, between its successful flock and its LOCK_UN.
C27_AppendUnderLock ==
    [][\A w \in LogWorkers :
          (lbuffer[w] # NoneUrl /\ logfile' = Append(logfile, lbuffer[w])) => lock = w]_vars

\* C28: the blacklist substitution produces a derived Request: once request()
\* has returned, the Request object it was handed still has the URL it was
\* handed with.
C28_CallerRequestUnchanged ==
    (InCall("request") /\ pc = "done" /\ result.kind = "response") =>
        request.url = op.url

\* ----------------------------------------------------- claims on the setters
\* C29: set_timing(t) for a non-empty list t enables retries with total =
\* len(t), backoff factor t[0] for one delay and t[1] - t[0] otherwise, for the
\* status codes 408, 429, 500, 502, 503 and 504; set_timing(None) and
\* set_timing([]) disable retries and leave timing() None; a new UserAgent has
\* retries disabled.
C29_TimingConfiguresRetries ==
    /\ (setter.name = "set_timing" /\ setter.raised = "") =>
          IF setter.arg_none \/ setter.arg_list = <<>>
          THEN timing.none /\ ~retries.enabled
          ELSE /\ retries.enabled
               /\ retries.total = Len(setter.arg_list)
               /\ Len(setter.arg_list) = 1 => retries.backoff_factor = setter.arg_list[1]
               /\ Len(setter.arg_list) > 1 =>
                     retries.backoff_factor = setter.arg_list[2] - setter.arg_list[1]
               /\ retries.status_forcelist = {408, 429, 500, 502, 503, 504}
    /\ nset = 0 => (timing.none /\ ~retries.enabled)

\* set_timing([1, 4]) was called: two retries with the factor 3
C29_Witness ==
    /\ setter.name = "set_timing"
    /\ setter.arg_list = <<1, 4>>
    /\ retries.total = 2
    /\ retries.backoff_factor = 3

\* C30: after construction and after any sequence of set_timeout,
\* set_max_redirect, set_max_size and set_timing calls, returning or raising,
\* timeout is None or > 0, max_redirect is None or >= 0, max_size is None or
\* > 0, and timing is None or a non-empty list.
C30_SetterInvariant ==
    /\ timeout = NoneInt \/ timeout > 0
    /\ max_redirect = NoneInt \/ max_redirect >= 0
    /\ max_size = NoneInt \/ max_size > 0
    /\ timing.none \/ timing.list # <<>>

\* set_timeout(None), then set_timeout(0), which raised and left None
C30_Witness ==
    /\ nset = 2
    /\ setter.name = "set_timeout"
    /\ setter.arg_int = 0
    /\ setter.raised = "McUserAgentException"
    /\ timeout = NoneInt

\* ------------------------------------------- claims on the schedule
LastThreeLabels(url) ==
    SubSeq(HostLabels(url), Len(HostLabels(url)) - 2, Len(HostLabels(url)))

\* C31: two HTTP URLs whose hosts end in a two-letter label and share their
\* last three labels (a.bar.co.uk and b.bar.co.uk) get the same domain key and
\* so share one throttling bucket.
C31_CountryKeyShared ==
    (/\ domains # <<>>
     /\ \A i \in 1..2 : CountryStyle(key_urls[i]) /\ Len(HostLabels(key_urls[i])) >= 3
     /\ LastThreeLabels(key_urls[1]) = LastThreeLabels(key_urls[2])) =>
        domains[1] = domains[2]

\* the entries of a schedule that belong to the domain bucket of entry k
SameBucket(sched, k) ==
    {j \in 1..Len(sched) : get_url_domain(sched[j].url) = get_url_domain(sched[k].url)}

\* the 0-based index of entry k of a schedule within its domain bucket
IndexInBucket(sched, k) ==
    Cardinality({j \in SameBucket(sched, k) : sched[j].idx < sched[k].idx})

\* C32: the URL at index i of its domain bucket gets the offset
\* (i div 5) * per_domain_timeout, the offset advancing at every 5th URL only,
\* and so at most 5 URLs of one domain share an offset.
C32_BurstsOfFive ==
    schedule # <<>> =>
        \A k \in 1..Len(schedule) :
            /\ schedule[k].time = (IndexInBucket(schedule, k) \div 5) * sched_timeout
            /\ Cardinality({j \in SameBucket(schedule, k) :
                                schedule[j].time = schedule[k].time}) <= 5

\* C33: the schedule is a permutation of the batch, every occurrence of a URL
\* appearing exactly once, it is sorted ascending by offset, and two URLs of one
\* domain bucket keep their arrival order in it.
C33_SchedulePermutation ==
    schedule # <<>> =>
        /\ Len(schedule) = Len(sched_urls)
        /\ {schedule[k].idx : k \in 1..Len(schedule)} = 1..Len(sched_urls)
        /\ \A k \in 1..Len(schedule) : schedule[k].url = sched_urls[schedule[k].idx]
        /\ \A j, k \in 1..Len(schedule) :
              j < k =>
                 /\ schedule[j].time <= schedule[k].time
                 /\ j \in SameBucket(schedule, k) => schedule[j].idx < schedule[k].idx

\* the sort moved a URL of another domain in front of two URLs of one bucket
\* that have the same offset, and of which one is given twice
C33_Witness ==
    /\ schedule # <<>>
    /\ \E j, k \in 1..Len(schedule) :
          /\ j < k
          /\ schedule[j].idx > schedule[k].idx
          /\ \E m \in SameBucket(schedule, k) \ {k} :
                /\ schedule[m].time = schedule[k].time
                /\ schedule[m].url = schedule[k].url

\* the places of url_blocks that hold a scheduled URL
PlacesOf(scheduled_url) ==
    {km \in (1..Len(url_blocks)) \X (1..MaxBatch) :
        /\ km[2] <= Len(url_blocks[km[1]].urls)
        /\ url_blocks[km[1]].urls[km[2]] = scheduled_url}

\* the number of URLs given to worker block_i
BlockSize(block_i) ==
    LET known == {k \in 1..Len(url_blocks) : url_blocks[k].block_i = block_i}
    IN  IF known = {} THEN 0 ELSE Len(url_blocks[CHOOSE k \in known : TRUE].urls)

\* C34: the URL at 0-based position i of the sorted schedule goes to worker
\* (i + 1) mod num_parallel, the last position being popped first; every
\* scheduled URL is given to exactly one worker, once; at most num_parallel
\* workers get work and the sizes of their lists differ by at most one.
C34_Partition ==
    url_blocks # <<>> =>
        LET sched == get_scheduled_urls(urls, per_domain_timeout) IN
        /\ \A i \in 0..(Len(sched) - 1) :
              /\ Cardinality(PlacesOf(sched[i + 1])) = 1
              /\ \A km \in PlacesOf(sched[i + 1]) :
                    url_blocks[km[1]].block_i = (i + 1) % num_parallel
        /\ \A k \in 1..Len(url_blocks) :
              /\ url_blocks[k].block_i \in 0..(num_parallel - 1)
              /\ Len(url_blocks[k].urls) >= 1
              /\ \A m \in 1..Len(url_blocks[k].urls) :
                    \E i \in 1..Len(sched) : url_blocks[k].urls[m] = sched[i]
              /\ \A j \in 1..Len(url_blocks) :
                    url_blocks[j].block_i = url_blocks[k].block_i => j = k
        /\ url_blocks[1].urls[1] = sched[Len(sched)]
        /\ Len(url_blocks) <= num_parallel
        /\ \A a, b \in 0..(num_parallel - 1) : BlockSize(a) - BlockSize(b) <= 1

\* three URLs for two workers: worker 1 got positions 2 and 0, worker 0 got
\* position 1
C34_Witness ==
    /\ Len(url_blocks) = 2
    /\ num_parallel = 2
    /\ url_blocks[1].block_i = 1
    /\ Len(url_blocks[1].urls) = 2
    /\ url_blocks[2].block_i = 0
    /\ Len(url_blocks[2].urls) = 1

\* C35: no request of a batch is fired before the offset of its URL has passed
\* since start_time, whatever the interleaving of the workers and the duration
\* of the fetches before.
C35_NoEarlyDispatch ==
    [][Len(fetches') > Len(fetches) => clock >= fetches'[Len(fetches')].time]_vars

\* the first request of the batch is one with the offset 5: its worker slept
\* until second 5, and then fired it
C35_Witness ==
    /\ Len(fetches) = 1
    /\ fetches[1].time = 5
    /\ wwake[fetches[1].worker] = 5
    /\ clock = 5

\* the result lists of the first n workers submitted, one after the other
RECURSIVE ResultsOfWorkers(_)
ResultsOfWorkers(n) ==
    IF n = 0 THEN <<>> ELSE ResultsOfWorkers(n - 1) \o wresponses[n]

\* C36: when no worker raises, parallel_get returns after every worker has
\* finished, and its result has one response for every occurrence of a URL in
\* the batch: the result lists of the workers in the order the workers were
\* submitted, each in the order the worker processed its URLs.
C36_ResultConcatenation ==
    (BatchRan /\ \A w \in 1..Len(wstate) : wstate[w] \in {"running", "finished"}) =>
        /\ presult.kind = "response"
        /\ \A w \in 1..Len(wstate) : wstate[w] = "finished"
        /\ Len(presult.responses) = Len(urls)
        /\ {presult.responses[k].idx : k \in 1..Len(presult.responses)} = 1..Len(urls)
        /\ \A k \in 1..Len(presult.responses) :
              presult.responses[k].url = urls[presult.responses[k].idx]
        /\ presult.responses = ResultsOfWorkers(Len(url_blocks))
        /\ \A w \in 1..Len(url_blocks) :
              /\ Len(wresponses[w]) = Len(url_blocks[w].urls)
              /\ \A k \in 1..Len(wresponses[w]) :
                    wresponses[w][k].idx = url_blocks[w].urls[k].idx

\* a batch of three URLs for two workers returned three responses
C36_Witness ==
    /\ BatchRan
    /\ presult.kind = "response"
    /\ Len(url_blocks) = 2
    /\ Len(presult.responses) = 3

\* C37: the list of every worker is in non-increasing order of offset; so a
\* worker sleeps before its first URL only, and never fires a URL of a smaller
\* offset before one of a larger offset.
C37_WorkerOrder ==
    /\ \A w \in 1..Len(url_blocks) :
          /\ \A j, k \in 1..Len(url_blocks[w].urls) :
                j < k => url_blocks[w].urls[j].time >= url_blocks[w].urls[k].time
          /\ wpc[w] = "sleep" => wnext[w] = 1
    /\ \A i, j \in 1..Len(fetches) :
          (i < j /\ fetches[i].worker = fetches[j].worker) =>
              fetches[i].time >= fetches[j].time

\* a worker fired a URL of offset 5 and then, without a sleep, a URL of
\* offset 0
C37_Witness ==
    /\ Len(fetches) = 2
    /\ fetches[1].worker = fetches[2].worker
    /\ fetches[1].time = 5
    /\ fetches[2].time = 0
    /\ wwake[fetches[2].worker] = NoneInt
    /\ clock = 5

\* ------------------------------- claims on what the resolver returns
\* response i is response j or j is on the `previous` chain of i
RECURSIVE LeadsBackTo(_, _, _)
LeadsBackTo(i, j, fuel) ==
    IF i = 0 \/ fuel = 0 THEN FALSE
    ELSE i = j \/ LeadsBackTo(responses[i].previous, j, fuel - 1)

\* C38: when get_follow_http_html_redirects returns, it returns a response,
\* never None: the first response, the one of the initial get, or a response
\* from which the first response is reached by following `previous`.
C38_ReturnedLeadsToFirst ==
    (/\ InCall("get_follow_http_html_redirects")
     /\ pc = "done"
     /\ result.kind = "response") =>
        /\ result.id # 0
        /\ first # 0
        /\ LeadsBackTo(result.id, first, Len(responses) + 1)

\* the response returned is not the first one, which is two `previous` links
\* behind it
C38_Witness ==
    /\ InCall("get_follow_http_html_redirects")
    /\ pc = "done"
    /\ result.kind = "response"
    /\ result.id # first
    /\ responses[result.id].previous # 0
    /\ responses[responses[result.id].previous].previous = first

\* C39: a setter call that raises (set_timeout or set_max_size with a value
\* <= 0, set_max_redirect with a negative value, set_timing with something
\* that is not a list) leaves timeout, max_redirect, max_size, timing and the
\* retry policy of the session as they were before the call.
C39_RaisingSetterChangesNothing ==
    [][(nset' = nset + 1 /\ setter'.raised # "") =>
          UNCHANGED <<timeout, max_redirect, max_size, timing, retries>>]_vars

\* set_max_size(1), then set_max_size(0), which raised and left 1
C39_Witness ==
    /\ nset = 2
    /\ setter.name = "set_max_size"
    /\ setter.arg_int = 0
    /\ setter.raised = "McUserAgentException"
    /\ max_size = 1

====
